---- MODULE Spec2Model ----
(***************************************************************************)
(* SignalFlow / Feedback Analyzer worker (src/feedback-analyser-2/src/     *)
(* index.js) over the D1 feedback table (src/unnamed/part_000).            *)
(*                                                                         *)
(* One request is in flight at a time; a handler is cut into the segments  *)
(* between its awaits (one action per segment), and the store may change   *)
(* between two segments.  Texts are sequences of tokens, sentiment scores  *)
(* are counted in tenths (0.7 is 7), created_at is a tick count.           *)
(***************************************************************************)
EXTENDS Integers, Sequences, FiniteSets, TLC

VARIABLES
    store,      \* the feedback table: a sequence of rows, row i has id i
    req,        \* the request being handled
    pc,         \* position of the handler: "idle", a segment name, or "done"
    acc,        \* results of the handler's queries so far, in query order
    reply,      \* the Response returned by fetch
    aiCalls,    \* env.AI.run calls issued for this request
    dbCalls,    \* store queries issued for this request
    aiInput,    \* the texts embedded in the prompt of the last env.AI.run call
    dbFailed    \* store queries of this request that rejected

vars == <<store, req, pc, acc, reply, aiCalls, dbCalls, aiInput, dbFailed>>

-----------------------------------------------------------------------------
(* Bounds of the model *)

\* longest free-form classifier response, in tokens
MaxTokens == 3

\* rows in the table while classify, summarize and theme-detail requests run
MaxClassifyRows == 1

\* rows in the table while overview requests run
MaxOverviewRows == 2

\* rows in the table while the themes are ranked
MaxThemeRows == 6

\* rows in the table while requests of every kind run
MaxWorkerRows == 2

\* texts in the body of a summarize request
MaxTexts == 12

\* rows in the table while samples of any urgency value are read
MaxSampleRows == 3

\* rows in the table while the per-day and per-theme views are read
MaxDetailRows == 19

\* of these, the leading rows that may come out of day order
MaxVariedRows == 4

\* rows in the table while the feedback list is read, and the leading rows
\* of these that may come out of day order
MaxFeedbackRows == 52
MaxFeedbackVaried == 2

-----------------------------------------------------------------------------
(* Closed enums of the output contract (the prompt of analyzeWithAI) *)

Sentiments == {"positive", "neutral", "negative"}

Themes == {"performance", "pricing", "documentation", "developer-experience",
           "reliability", "feature-request", "other"}

Urgencies == {"low", "medium", "high", "critical"}

\* sentiment_score: -1.0 .. 1.0, in tenths
ScoreMin == -10
ScoreMax == 10

-----------------------------------------------------------------------------
(* Texts and JSON objects.                                                 *)
(* A token is a brace, a run of prose without braces ("w"), or one         *)
(* "key": value member of an object ("m") with a string or a number value. *)

Tok(kind, key, sval, nval) == [kind |-> kind, key |-> key, sval |-> sval, nval |-> nval]

LBrace == Tok("{", "", "", 0)
RBrace == Tok("}", "", "", 0)
Prose  == Tok("w", "", "", 0)
StrMember(key, s) == Tok("m", key, s, 0)
NumMember(key, n) == Tok("m", key, "", n)

\* Positions of the braces of a text
BracePositions(text, brace) == {i \in 1..Len(text) : text[i] = brace}

Min(S) == CHOOSE x \in S : \A y \in S : x <= y
Max(S) == CHOOSE x \in S : \A y \in S : x >= y

\* JsonMatch with a lazy quantifier, /\{[\s\S]*?\}/: up to the first '}'
JsonMatchFirstToFirst(text) ==
    LET opens == BracePositions(text, LBrace)
    IN  IF opens = {} THEN <<>>
        ELSE LET first == Min(opens)
                 closes == {j \in BracePositions(text, RBrace) : j > first}
             IN  IF closes = {} THEN <<>>
                 ELSE SubSeq(text, first, Min(closes))

\* JsonMatch with an anchored pattern, /^\{[\s\S]*\}$/: no prose around
JsonMatchAnchored(text) ==
    IF Len(text) >= 2 /\ text[1] = LBrace /\ text[Len(text)] = RBrace THEN text ELSE <<>>

\* JsonMatch as the first balanced {...}: from the first '{' to the '}'
\* that closes it
JsonMatchBalanced(text) ==
    LET opens == BracePositions(text, LBrace)
    IN  IF opens = {} THEN <<>>
        ELSE LET first == Min(opens)
                 Depth(j) == Cardinality({i \in first..j : text[i] = LBrace})
                             - Cardinality({i \in first..j : text[i] = RBrace})
                 closes == {j \in first..Len(text) : Depth(j) = 0}
             IN  IF closes = {} THEN <<>>
                 ELSE SubSeq(text, first, Min(closes))

\* String.prototype.match(/\{[\s\S]*\}/): the greedy match from the first
\* '{' to the last '}' after it; <<>> stands for null (no match).
JsonMatch(text) ==
    LET opens == BracePositions(text, LBrace)
    IN  IF opens = {} THEN <<>>
        ELSE LET first == Min(opens)
                 closes == {j \in BracePositions(text, RBrace) : j > first}
             IN  IF closes = {} THEN <<>>
                 ELSE SubSeq(text, first, Max(closes))

\* JSON.parse accepts '{' members '}' and nothing else
JsonParses(text) ==
    /\ Len(text) >= 2
    /\ text[1] = LBrace
    /\ text[Len(text)] = RBrace
    /\ \A i \in 2..(Len(text) - 1) : text[i].kind = "m"

\* The object JSON.parse builds: of two members with one key the last wins
JsonParse(text) ==
    {text[i] : i \in {j \in 2..(Len(text) - 1) :
                        \A k \in (j + 1)..(Len(text) - 1) : text[k].key # text[j].key}}


\* A fixed message as a text
Msg(s) == <<Tok("w", "", s, 0)>>

-----------------------------------------------------------------------------
(* Requests *)

\* url.searchParams.get(name): null when the parameter is missing
Absent == [has |-> FALSE, v |-> ""]
Given(v) == [has |-> TRUE, v |-> v]

\* Falsy as a test for null only (x === null)
FalsyNullOnly(p) == ~p.has

\* JavaScript's !x for a string-or-null
Falsy(p) == ~p.has \/ p.v = ""

\* The body of a POST: ok is whether request.json() decodes it
Body(ok, content, texts, theme) ==
    [ok |-> ok, content |-> content, texts |-> texts, theme |-> theme]

NoTexts == [has |-> FALSE, v |-> <<>>]
Texts(seq) == [has |-> TRUE, v |-> seq]

NoBody == Body(FALSE, Absent, NoTexts, Absent)

\* The query string: sentiment, theme, urgency, channel, limit
Query(sentiment, theme, urgency, channel, limit) ==
    [sentiment |-> sentiment, theme |-> theme, urgency |-> urgency,
     channel |-> channel, limit |-> limit]

\* the limit parameter, its value a sequence of characters
NoLimit == [has |-> FALSE, v |-> <<>>]
Limit(chars) == [has |-> TRUE, v |-> chars]

NoQuery == Query(Absent, Absent, Absent, Absent, NoLimit)
ThemeQuery(theme) == Query(Absent, theme, Absent, Absent, NoLimit)

Request(method, path, query, body) ==
    [method |-> method, path |-> path, query |-> query, body |-> body]

NoRequest == Request("", "", NoQuery, NoBody)

-----------------------------------------------------------------------------
(* Replies *)

\* new Response(JSON.stringify(body), {status}); status defaults to 200
Response(status, body) == [status |-> status, body |-> body]

NoReply == Response(0, {})

\* fetch's catch: the 500 reply for anything a handler throws
OperationalFailure == Response(500, {StrMember("error", "error.message")})

NotFound == Response(404, {})

-----------------------------------------------------------------------------
(* The generative-text capability: what one env.AI.run call can do *)

AIThrows     == [kind |-> "throws", text |-> <<>>]
AINull       == [kind |-> "null", text |-> <<>>]
AINoResponse == [kind |-> "noresponse", text |-> <<>>]
AIText(text) == [kind |-> "text", text |-> text]

RECURSIVE SeqsUpTo(_, _)
SeqsUpTo(S, n) ==
    IF n = 0 THEN {<<>>}
    ELSE LET shorter == SeqsUpTo(S, n - 1)
         IN  shorter \cup {Append(s, x) : s \in {t \in shorter : Len(t) = n - 1}, x \in S}

FreeAlphabet == {LBrace, RBrace, Prose,
                 StrMember("sentiment", "positive"), StrMember("sentiment", "angry")}

\* garbage, empty text, unbalanced braces, fragments
FreeTexts == SeqsUpTo(FreeAlphabet, MaxTokens)

SentimentOpts == {<<>>} \cup {<<StrMember("sentiment", s)>> : s \in {"positive", "negative", "angry"}}
ScoreOpts     == {<<>>} \cup {<<NumMember("sentiment_score", n)>> : n \in {7, -10, 25}}
ThemeOpts     == {<<>>} \cup {<<StrMember("theme", s)>> : s \in {"pricing", "billing"}}
UrgencyOpts   == {<<>>} \cup {<<StrMember("urgency", s)>> : s \in {"low", "asap"}}

\* one JSON object, its fields in or out of their domains, or missing
ObjectTexts ==
    {<<LBrace>> \o s \o n \o t \o u \o <<StrMember("summary", "ok"), RBrace>> :
        s \in SentimentOpts, n \in ScoreOpts, t \in ThemeOpts, u \in UrgencyOpts}

Prefixes == {<<>>, <<Prose>>}
Suffixes == {<<>>, <<Prose>>, <<Prose, RBrace>>,
             <<Prose, LBrace, StrMember("sentiment", "negative"), RBrace>>,
             <<LBrace, StrMember("sentiment", "negative"), RBrace>>}

AITexts == FreeTexts \cup {p \o o \o x : p \in Prefixes, o \in ObjectTexts, x \in Suffixes}

AIOutcomes == {AIThrows, AINull, AINoResponse} \cup {AIText(t) : t \in AITexts}

-----------------------------------------------------------------------------
(* analyzeWithAI *)

\* the inner catch: "Fallback if AI response is not valid JSON".
\* JSON.stringify omits raw_response when aiResponse.response is undefined.
ParseFallback(outcome) ==
    {StrMember("sentiment", "neutral"), NumMember("sentiment_score", 0),
     StrMember("theme", "other"), StrMember("urgency", "medium"),
     StrMember("summary", "Unable to parse AI response")}
    \cup (IF outcome.kind = "text" THEN {StrMember("raw_response", "aiResponse.response")} ELSE {})

\* the outer catch: "If AI fails, return a basic analysis"
UnavailableFallback ==
    {StrMember("sentiment", "neutral"), NumMember("sentiment_score", 0),
     StrMember("theme", "other"), StrMember("urgency", "medium"),
     StrMember("summary", "AI analysis unavailable"),
     StrMember("error", "aiError.message")}

\* The body analyzeWithAI replies with once env.AI.run has settled
Analysis(outcome) ==
    CASE outcome.kind = "throws" -> UnavailableFallback
      \* reading .response of null throws in the inner try and again in
      \* the inner catch (raw_response), which the outer catch absorbs
      [] outcome.kind = "null" -> UnavailableFallback
      \* undefined.match throws in the inner try
      [] outcome.kind = "noresponse" -> ParseFallback(outcome)
      [] outcome.kind = "text" ->
            LET jsonMatch == JsonMatch(outcome.text)
            IN  IF jsonMatch # <<>> /\ JsonParses(jsonMatch)
                THEN JsonParse(jsonMatch)
                ELSE ParseFallback(outcome)

-----------------------------------------------------------------------------
(* The feedback table *)

Row(id, created_at, channel, content, sentiment, score, theme, urgency, analyzed) ==
    [id |-> id, created_at |-> created_at, channel |-> channel, content |-> content,
     sentiment |-> sentiment, sentiment_score |-> score, theme |-> theme,
     urgency |-> urgency, value_score |-> "medium", analyzed |-> analyzed]

\* SELECT ... FROM feedback
Feedback == {store[i] : i \in 1..Len(store)}

\* the WHERE clause without analyzed = 1
AnyRows == Feedback

\* ... WHERE analyzed = 1
AnalyzedRows == {r \in Feedback : r.analyzed = 1}

\* The data model's invariant on what the writers put into the table:
\* analyzed = 1 implies sentiment, theme and urgency are in their domains
\* (theme including the sentinel) and the score is within [-1, 1]
WellFormed(r) ==
    r.analyzed = 1 =>
        /\ r.sentiment \in Sentiments
        /\ r.theme \in Themes \cup {"uncategorized"}
        /\ r.urgency \in Urgencies
        /\ r.sentiment_score \in ScoreMin..ScoreMax

\* INSERT INTO feedback: ids are AUTOINCREMENT
Insert(created_at, channel, content, sentiment, score, theme, urgency, analyzed) ==
    LET r == Row(Len(store) + 1, created_at, channel, content,
                 sentiment, score, theme, urgency, analyzed)
    IN  /\ WellFormed(r)
        /\ store' = Append(store, r)
        /\ UNCHANGED <<req, pc, acc, reply, aiCalls, dbCalls, aiInput, dbFailed>>

-----------------------------------------------------------------------------
(* SQL values and aggregates *)

\* a nullable integer
Null == [null |-> TRUE, v |-> 0]
Num(n) == [null |-> FALSE, v |-> n]

\* a nullable mean, kept as the fraction num / den
NullAvg == [null |-> TRUE, num |-> 0, den |-> 1]

RECURSIVE SumScores(_)
SumScores(S) ==
    IF S = {} THEN 0
    ELSE LET r == CHOOSE x \in S : TRUE
         IN  r.sentiment_score + SumScores(S \ {r})

\* COUNT(*)
Count(S) == Cardinality(S)

\* SUM(CASE WHEN p THEN 1 ELSE 0 END) over the rows S that satisfy p is
\* Matching: NULL when there is no row at all
SumCase(S, Matching) == IF S = {} THEN Null ELSE Num(Cardinality(Matching))

\* AVG(sentiment_score): NULL when there is no row
Avg(S) == IF S = {} THEN NullAvg
          ELSE [null |-> FALSE, num |-> SumScores(S), den |-> Cardinality(S)]

\* ORDER BY ... LIMIT n: every result the store may return, rows that
\* compare equal under the ORDER BY coming in any order.  precedes is the
\* set of pairs <<a, b>> where a sorts strictly before b.
RECURSIVE OrderByLimit(_, _, _)
OrderByLimit(S, n, precedes) ==
    IF S = {} \/ n = 0 THEN {<<>>}
    ELSE UNION {{<<m>> \o rest : rest \in OrderByLimit(S \ {m}, n - 1, precedes)} :
                m \in {x \in S : \A y \in S : <<y, x>> \notin precedes}}

-----------------------------------------------------------------------------
(* fetch: the router *)

Preflight == Response(200, {})
Dashboard == Response(200, {StrMember("html", "dashboard")})

\* The handler a request is routed to (its first segment), or "not_found"
Route(r) ==
    CASE r.path \in {"/", "/index.html"} -> "dashboard"
      [] r.path = "/api/overview" -> "overview_stats"
      [] r.path = "/api/feedback" -> "feedback"
      [] r.path = "/api/themes" -> "themes"
      [] r.path = "/api/sentiment-trend" -> "sentiment_trend"
      [] r.path = "/api/analyze" /\ r.method = "POST" -> "analyze"
      [] r.path = "/api/theme-detail" -> "theme_detail"
      [] r.path = "/api/distributions" -> "distributions_sentiment"
      [] r.path = "/api/summarize" /\ r.method = "POST" -> "summarize"
      [] OTHER -> "not_found"

\* Fetch with the query results of the request before kept in the isolate
FetchKeepingResults(r) ==
    /\ pc \in {"idle", "done"}
    /\ req' = r
    /\ aiCalls' = 0
    /\ dbCalls' = 0
    /\ aiInput' = <<>>
    /\ dbFailed' = 0
    /\ IF r.method = "OPTIONS" THEN reply' = Preflight /\ pc' = "done"
       ELSE IF Route(r) = "dashboard" THEN reply' = Dashboard /\ pc' = "done"
       ELSE IF Route(r) = "not_found" THEN reply' = NotFound /\ pc' = "done"
       ELSE reply' = NoReply /\ pc' = Route(r)
    /\ UNCHANGED <<store, acc>>

\* A request arrives and is dispatched
Fetch(r) ==
    /\ pc \in {"idle", "done"}
    /\ req' = r
    /\ acc' = <<>>
    /\ aiCalls' = 0
    /\ dbCalls' = 0
    /\ aiInput' = <<>>
    /\ dbFailed' = 0
    /\ IF r.method = "OPTIONS" THEN reply' = Preflight /\ pc' = "done"
       ELSE IF Route(r) = "dashboard" THEN reply' = Dashboard /\ pc' = "done"
       ELSE IF Route(r) = "not_found" THEN reply' = NotFound /\ pc' = "done"
       ELSE reply' = NoReply /\ pc' = Route(r)
    /\ UNCHANGED store

\* The handler returns resp
Return(resp) ==
    /\ reply' = resp
    /\ pc' = "done"

\* the exception left uncaught: the request stays without a reply
ThrowUnanswered ==
    /\ reply' = reply
    /\ pc' = "thrown"

\* The handler throws (request.json() or a store query rejects): fetch's catch
Throw == Return(OperationalFailure)

-----------------------------------------------------------------------------
(* analyzeWithAI, the handler *)

InvalidContent == Response(400, {StrMember("error", "Content required")})

\* up to the env.AI.run call
AnalyzeBody ==
    /\ pc = "analyze"
    /\ IF ~req.body.ok
       THEN Throw /\ UNCHANGED <<aiCalls, aiInput>>
       ELSE IF Falsy(req.body.content)
       THEN Return(InvalidContent) /\ UNCHANGED <<aiCalls, aiInput>>
       ELSE /\ aiCalls' = aiCalls + 1
            /\ aiInput' = <<req.body.content.v>>
            /\ pc' = "analyze_ai"
            /\ UNCHANGED reply
    /\ UNCHANGED <<store, req, acc, dbCalls, dbFailed>>

\* AnalyzeReply without the outer try/catch: a failed call reaches fetch's catch
AnalyzeReplyUncaught(outcome) ==
    IF outcome.kind \in {"throws", "null"} THEN OperationalFailure
    ELSE Response(200, Analysis(outcome))

\* The Response analyzeWithAI returns once env.AI.run has settled
AnalyzeReply(outcome) == Response(200, Analysis(outcome))

\* AnalyzeAI with a retry: a call that threw is issued again
AnalyzeAIRetry(outcome) ==
    /\ pc = "analyze_ai"
    /\ IF outcome.kind = "throws"
       THEN /\ aiCalls' = aiCalls + 1
            /\ UNCHANGED <<acc, reply, pc>>
       ELSE /\ acc' = Append(acc, outcome)
            /\ Return(AnalyzeReply(outcome))
            /\ UNCHANGED aiCalls
    /\ UNCHANGED <<store, req, dbCalls, aiInput, dbFailed>>

\* AnalyzeAI that also stores the text it classified as a FeedbackItem
AnalyzeAIStores(outcome) ==
    /\ pc = "analyze_ai"
    /\ acc' = Append(acc, outcome)
    /\ Return(AnalyzeReply(outcome))
    /\ store' = Append(store, Row(Len(store) + 1, 0, "live", req.body.content.v,
                                  "neutral", 0, "other", "medium", 1))
    /\ UNCHANGED <<req, aiCalls, dbCalls, aiInput, dbFailed>>

\* env.AI.run settles with outcome
AnalyzeAI(outcome) ==
    /\ pc = "analyze_ai"
    /\ acc' = Append(acc, outcome)
    /\ Return(AnalyzeReply(outcome))
    /\ UNCHANGED <<store, req, aiCalls, dbCalls, aiInput, dbFailed>>

-----------------------------------------------------------------------------
(* summarizeFeedback *)

SummarySliceLimit == 10

\* slice as the whole array
SliceAll(texts, n) == texts

\* feedbackTexts.slice(0, 10)
Slice(texts, n) == SubSeq(texts, 1, IF Len(texts) < n THEN Len(texts) ELSE n)

\* Array.prototype.join: the separator between any two neighbours
RECURSIVE Join(_, _)
Join(texts, sep) ==
    IF Len(texts) = 0 THEN <<>>
    ELSE IF Len(texts) = 1 THEN texts
    ELSE <<Head(texts), sep>> \o Join(Tail(texts), sep)

SummaryBody(summary, error) == [summary |-> summary, error |-> error]

NoFeedbackSummary ==
    Response(200, SummaryBody(Texts(Msg("No feedback to summarize.")), FALSE))

UnavailableSummary ==
    Response(200, SummaryBody(
        Texts(Msg("Unable to generate AI summary. Please review the feedback manually.")),
        TRUE))

\* the guard as !feedbackTexts alone
SummarizeBodyUnguarded ==
    /\ pc = "summarize"
    /\ IF ~req.body.ok
       THEN Throw /\ UNCHANGED <<aiCalls, aiInput>>
       ELSE IF ~req.body.texts.has
       THEN Return(NoFeedbackSummary) /\ UNCHANGED <<aiCalls, aiInput>>
       ELSE /\ aiCalls' = aiCalls + 1
            /\ aiInput' = Join(Slice(req.body.texts.v, SummarySliceLimit), "\n---\n")
            /\ pc' = "summarize_ai"
            /\ UNCHANGED reply
    /\ UNCHANGED <<store, req, acc, dbCalls, dbFailed>>

\* up to the env.AI.run call
SummarizeBody ==
    /\ pc = "summarize"
    /\ IF ~req.body.ok
       THEN Throw /\ UNCHANGED <<aiCalls, aiInput>>
       ELSE IF ~req.body.texts.has \/ Len(req.body.texts.v) = 0
       THEN Return(NoFeedbackSummary) /\ UNCHANGED <<aiCalls, aiInput>>
       ELSE /\ aiCalls' = aiCalls + 1
            /\ aiInput' = Join(Slice(req.body.texts.v, SummarySliceLimit), "\n---\n")
            /\ pc' = "summarize_ai"
            /\ UNCHANGED reply
    /\ UNCHANGED <<store, req, acc, dbCalls, dbFailed>>

\* the call outside any try: its failure reaches fetch's catch
SummaryUncaught(outcome) ==
    CASE outcome.kind \in {"throws", "null"} -> OperationalFailure
      [] outcome.kind = "noresponse" -> Response(200, SummaryBody(NoTexts, FALSE))
      [] outcome.kind = "text" -> Response(200, SummaryBody(Texts(outcome.text), FALSE))

\* The reply once env.AI.run has settled; JSON.stringify omits an
\* undefined summary
Summary(outcome) ==
    CASE outcome.kind \in {"throws", "null"} -> UnavailableSummary
      [] outcome.kind = "noresponse" -> Response(200, SummaryBody(NoTexts, FALSE))
      [] outcome.kind = "text" -> Response(200, SummaryBody(Texts(outcome.text), FALSE))

SummarizeAI(outcome) ==
    /\ pc = "summarize_ai"
    /\ acc' = Append(acc, outcome)
    /\ Return(Summary(outcome))
    /\ UNCHANGED <<store, req, aiCalls, dbCalls, aiInput, dbFailed>>

-----------------------------------------------------------------------------
(* Store queries: a query is answered from the table as it is when the     *)
(* segment runs, or rejects (the store is unavailable)                     *)

\* the awaited query resolves to result
Resolved(result, next) ==
    /\ dbCalls' = dbCalls + 1
    /\ acc' = Append(acc, result)
    /\ pc' = next
    /\ UNCHANGED <<store, req, reply, aiCalls, aiInput, dbFailed>>

\* the rejection caught in the handler and answered with no rows
RejectedSwallowed ==
    /\ dbCalls' = dbCalls + 1
    /\ dbFailed' = dbFailed + 1
    /\ Return(Response(200, <<>>))
    /\ UNCHANGED <<store, req, acc, aiCalls, aiInput>>

\* the awaited query rejects
Rejected ==
    /\ dbCalls' = dbCalls + 1
    /\ dbFailed' = dbFailed + 1
    /\ Throw
    /\ UNCHANGED <<store, req, acc, aiCalls, aiInput>>

\* the last query of a handler resolves and the handler replies
Replied(resp) ==
    /\ dbCalls' = dbCalls + 1
    /\ UNCHANGED <<store, req, acc, aiCalls, aiInput, dbFailed>>
    /\ Return(resp)

Reverse(seq) == [i \in 1..Len(seq) |-> seq[Len(seq) + 1 - i]]

\* urgent as critical alone
UrgentLevelsCriticalOnly == {"critical"}

UrgentLevels == {"critical", "high"}

\* ... WHERE analyzed = 1 AND theme != 'uncategorized'
CategorizedRows == {r \in AnalyzedRows : r.theme # "uncategorized"}

-----------------------------------------------------------------------------
(* getOverview *)

\* OverviewStats without the neutral CASE
OverviewStatsDropNeutral ==
    LET S == AnalyzedRows
    IN  [total_feedback |-> Num(Count(S)),
         positive |-> SumCase(S, {r \in S : r.sentiment = "positive"}),
         neutral  |-> SumCase(S, {}),
         negative |-> SumCase(S, {r \in S : r.sentiment = "negative"}),
         critical_count |-> SumCase(S, {r \in S : r.urgency = "critical"}),
         high_count |-> SumCase(S, {r \in S : r.urgency = "high"}),
         avg_sentiment |-> Avg(S)]

\* SELECT COUNT(*), SUM(CASE ...) ..., AVG(sentiment_score) WHERE analyzed = 1
OverviewStats ==
    LET S == AnalyzedRows
    IN  [total_feedback |-> Num(Count(S)),
         positive |-> SumCase(S, {r \in S : r.sentiment = "positive"}),
         neutral  |-> SumCase(S, {r \in S : r.sentiment = "neutral"}),
         negative |-> SumCase(S, {r \in S : r.sentiment = "negative"}),
         critical_count |-> SumCase(S, {r \in S : r.urgency = "critical"}),
         high_count |-> SumCase(S, {r \in S : r.urgency = "high"}),
         avg_sentiment |-> Avg(S)]

\* One group of ... GROUP BY theme
TopThemesGroup(theme) ==
    LET S == {r \in CategorizedRows : r.theme = theme}
    IN  [theme |-> theme,
         count |-> Count(S),
         avg_sentiment |-> Avg(S),
         urgent_count |-> Count({r \in S : r.urgency \in UrgentLevels})]

TopThemesGroups == {TopThemesGroup(theme) : theme \in {r.theme : r \in CategorizedRows}}

\* TopThemesOrder by count alone
TopThemesOrderByCountOnly(G) ==
    {p \in G \X G : p[1].count > p[2].count}

\* ORDER BY urgent_count DESC, count DESC
TopThemesOrder(G) ==
    {p \in G \X G :
        \/ p[1].urgent_count > p[2].urgent_count
        \/ p[1].urgent_count = p[2].urgent_count /\ p[1].count > p[2].count}

TopThemesLimit == 5

TopThemes == OrderByLimit(TopThemesGroups, TopThemesLimit, TopThemesOrder(TopThemesGroups))

\* SELECT channel, COUNT(*) FROM feedback GROUP BY channel ORDER BY count DESC
ChannelGroups(S) ==
    {[channel |-> c, count |-> Count({r \in S : r.channel = c})] : c \in {r.channel : r \in S}}

CountDesc(G) == {p \in G \X G : p[1].count > p[2].count}

OverviewChannels ==
    LET G == ChannelGroups(Feedback)
    IN  OrderByLimit(G, Cardinality(G), CountDesc(G))

\* One group of the "most discussed" query
TopThemeGroup(theme) ==
    LET S == {r \in CategorizedRows : r.theme = theme}
    IN  [theme |-> theme,
         count |-> Count(S),
         avg_sentiment |-> Avg(S),
         positive |-> Count({r \in S : r.sentiment = "positive"}),
         negative |-> Count({r \in S : r.sentiment = "negative"}),
         urgent_count |-> Count({r \in S : r.urgency \in UrgentLevels})]

\* ... ORDER BY count DESC LIMIT 1, .first(): <<>> stands for null
TopTheme ==
    LET G == {TopThemeGroup(theme) : theme \in {r.theme : r \in CategorizedRows}}
    IN  OrderByLimit(G, 1, CountDesc(G))

GetOverviewStats ==
    /\ pc = "overview_stats"
    /\ \/ Resolved(OverviewStats, "overview_topThemes")
       \/ Rejected

GetOverviewTopThemes ==
    /\ pc = "overview_topThemes"
    /\ \/ \E result \in TopThemes : Resolved(result, "overview_channels")
       \/ Rejected

GetOverviewChannels ==
    /\ pc = "overview_channels"
    /\ \/ \E result \in OverviewChannels : Resolved(result, "overview_topTheme")
       \/ Rejected

GetOverviewTopTheme ==
    /\ pc = "overview_topTheme"
    /\ \/ \E result \in TopTheme :
            Replied(Response(200, [stats |-> acc[1], topThemes |-> acc[2],
                                   channels |-> acc[3], topTheme |-> result]))
       \/ Rejected

-----------------------------------------------------------------------------
(* getThemeDetail *)

ThemeRequired == Response(400, {StrMember("error", "Theme parameter required")})

\* ... WHERE theme = ? AND analyzed = 1
ThemeRows(theme) == {r \in AnalyzedRows : r.theme = theme}

\* DATE(created_at): created_at counts half days
DateOf(created_at) == created_at \div 2

ThemeDetailStats(theme) ==
    LET S == ThemeRows(theme)
    IN  [total |-> Num(Count(S)),
         avg_sentiment |-> Avg(S),
         positive |-> SumCase(S, {r \in S : r.sentiment = "positive"}),
         neutral  |-> SumCase(S, {r \in S : r.sentiment = "neutral"}),
         negative |-> SumCase(S, {r \in S : r.sentiment = "negative"}),
         critical |-> SumCase(S, {r \in S : r.urgency = "critical"}),
         high     |-> SumCase(S, {r \in S : r.urgency = "high"}),
         medium   |-> SumCase(S, {r \in S : r.urgency = "medium"}),
         low      |-> SumCase(S, {r \in S : r.urgency = "low"})]

\* SELECT channel, COUNT(*) ... GROUP BY channel, in no stated order
ThemeDetailChannels(theme) ==
    LET G == ChannelGroups(ThemeRows(theme))
    IN  OrderByLimit(G, Cardinality(G), {})

\* a value that is no level ranked before the levels
UrgencyRankUnknownFirst(urgency) ==
    CASE urgency = "critical" -> 1
      [] urgency = "high" -> 2
      [] urgency = "medium" -> 3
      [] urgency = "low" -> 4
      [] OTHER -> 0

\* the levels ranked by their names
UrgencyRankByName(urgency) ==
    CASE urgency = "critical" -> 1
      [] urgency = "high" -> 2
      [] urgency = "medium" -> 4
      [] OTHER -> 3

\* CASE urgency WHEN 'critical' THEN 1 WHEN 'high' THEN 2 WHEN 'medium' THEN 3 ELSE 4 END
UrgencyRank(urgency) ==
    CASE urgency = "critical" -> 1
      [] urgency = "high" -> 2
      [] urgency = "medium" -> 3
      [] OTHER -> 4

SamplesLimit == 10

\* ORDER BY CASE urgency ... END, created_at DESC LIMIT 10
SamplesOrder(S) ==
    {p \in S \X S :
        \/ UrgencyRank(p[1].urgency) < UrgencyRank(p[2].urgency)
        \/ /\ UrgencyRank(p[1].urgency) = UrgencyRank(p[2].urgency)
           /\ p[1].created_at > p[2].created_at}

ThemeDetailSamples(theme) ==
    OrderByLimit(ThemeRows(theme), SamplesLimit, SamplesOrder(ThemeRows(theme)))

TrendLimit == 14

\* One group of ... GROUP BY DATE(created_at)
ThemeTrendGroup(S, date) ==
    LET D == {r \in S : DateOf(r.created_at) = date}
    IN  [date |-> date,
         count |-> Count(D),
         avg_sentiment |-> Avg(D),
         positive |-> Count({r \in D : r.sentiment = "positive"}),
         neutral  |-> Count({r \in D : r.sentiment = "neutral"}),
         negative |-> Count({r \in D : r.sentiment = "negative"})]

DateDesc(G) == {p \in G \X G : p[1].date > p[2].date}

\* ... ORDER BY date DESC LIMIT 14
ThemeDetailTrend(theme) ==
    LET S == ThemeRows(theme)
        G == {ThemeTrendGroup(S, date) : date \in {DateOf(r.created_at) : r \in S}}
    IN  OrderByLimit(G, TrendLimit, DateDesc(G))

RecentLimit == 10

CreatedDesc(S) == {p \in S \X S : p[1].created_at > p[2].created_at}

\* SELECT content ... ORDER BY created_at DESC LIMIT 10
ThemeDetailRecent(theme) ==
    OrderByLimit(ThemeRows(theme), RecentLimit, CreatedDesc(ThemeRows(theme)))

\* recentForSummary.results.map(r => r.content)
Contents(rows) == [i \in 1..Len(rows) |-> rows[i].content]

\* the guard, then the stats query
GetThemeDetailStats ==
    /\ pc = "theme_detail"
    /\ IF Falsy(req.query.theme)
       THEN Return(ThemeRequired) /\ UNCHANGED <<store, req, acc, aiCalls, dbCalls, aiInput, dbFailed>>
       ELSE \/ Resolved(ThemeDetailStats(req.query.theme.v), "theme_detail_channels")
            \/ Rejected

GetThemeDetailChannels ==
    /\ pc = "theme_detail_channels"
    /\ \/ \E result \in ThemeDetailChannels(req.query.theme.v) :
            Resolved(result, "theme_detail_samples")
       \/ Rejected

GetThemeDetailSamples ==
    /\ pc = "theme_detail_samples"
    /\ \/ \E result \in ThemeDetailSamples(req.query.theme.v) :
            Resolved(result, "theme_detail_trend")
       \/ Rejected

GetThemeDetailTrend ==
    /\ pc = "theme_detail_trend"
    /\ \/ \E result \in ThemeDetailTrend(req.query.theme.v) :
            Resolved(result, "theme_detail_recent")
       \/ Rejected

GetThemeDetailRecent ==
    /\ pc = "theme_detail_recent"
    /\ \/ \E result \in ThemeDetailRecent(req.query.theme.v) :
            Replied(Response(200, [theme |-> req.query.theme.v,
                                   stats |-> acc[1],
                                   channels |-> acc[2],
                                   samples |-> acc[3],
                                   trend |-> Reverse(acc[4]),
                                   recentFeedbackTexts |-> Contents(result)]))
       \/ Rejected

-----------------------------------------------------------------------------
(* getThemeDetail of the first worker (feedback-analyser): the stats have  *)
(* no medium and low counts, the trend has the count and the mean of the   *)
(* last 7 days, and the reply follows the trend query.  Its guard, its     *)
(* channels query and its samples query are those above.                   *)

Analyser1TrendLimit == 7

Analyser1GetThemeDetailStats ==
    /\ pc = "theme_detail"
    /\ IF Falsy(req.query.theme)
       THEN Return(ThemeRequired) /\ UNCHANGED <<store, req, acc, aiCalls, dbCalls, aiInput, dbFailed>>
       ELSE LET S == ThemeRows(req.query.theme.v)
                stats == [total |-> Num(Count(S)),
                          avg_sentiment |-> Avg(S),
                          positive |-> SumCase(S, {r \in S : r.sentiment = "positive"}),
                          neutral  |-> SumCase(S, {r \in S : r.sentiment = "neutral"}),
                          negative |-> SumCase(S, {r \in S : r.sentiment = "negative"}),
                          critical |-> SumCase(S, {r \in S : r.urgency = "critical"}),
                          high     |-> SumCase(S, {r \in S : r.urgency = "high"})]
            IN  \/ Resolved(stats, "theme_detail_channels")
                \/ Rejected

\* ... GROUP BY DATE(created_at) ORDER BY date DESC LIMIT 7, then the reply
Analyser1GetThemeDetailTrend ==
    /\ pc = "theme_detail_trend"
    /\ LET S == ThemeRows(req.query.theme.v)
           G == {[date |-> date,
                  count |-> Count({r \in S : DateOf(r.created_at) = date}),
                  avg_sentiment |-> Avg({r \in S : DateOf(r.created_at) = date})] :
                 date \in {DateOf(r.created_at) : r \in S}}
       IN  \/ \E result \in OrderByLimit(G, Analyser1TrendLimit, DateDesc(G)) :
                Replied(Response(200, [theme |-> req.query.theme.v,
                                       stats |-> acc[1],
                                       channels |-> acc[2],
                                       samples |-> acc[3],
                                       trend |-> Reverse(result)]))
           \/ Rejected

-----------------------------------------------------------------------------
(* getThemes *)

\* One group of ... GROUP BY theme
ThemeTableGroup(theme) ==
    LET S == {r \in CategorizedRows : r.theme = theme}
    IN  [theme |-> theme,
         total |-> Count(S),
         positive |-> Count({r \in S : r.sentiment = "positive"}),
         negative |-> Count({r \in S : r.sentiment = "negative"}),
         critical |-> Count({r \in S : r.urgency = "critical"}),
         high |-> Count({r \in S : r.urgency = "high"}),
         avg_sentiment |-> Avg(S)]

\* ORDER BY total ASC
TotalAsc(G) == {p \in G \X G : p[1].total < p[2].total}

TotalDesc(G) == {p \in G \X G : p[1].total > p[2].total}

\* ... ORDER BY total DESC
ThemeTable ==
    LET G == {ThemeTableGroup(theme) : theme \in {r.theme : r \in CategorizedRows}}
    IN  OrderByLimit(G, Cardinality(G), TotalDesc(G))

GetThemes ==
    /\ pc = "themes"
    /\ \/ \E result \in ThemeTable : Replied(Response(200, result))
       \/ Rejected

-----------------------------------------------------------------------------
(* getSentimentTrend *)

\* One group of ... GROUP BY DATE(created_at)
TrendGroup(date) ==
    LET D == {r \in AnalyzedRows : DateOf(r.created_at) = date}
    IN  [date |-> date,
         total |-> Count(D),
         avg_sentiment |-> Avg(D),
         positive |-> Count({r \in D : r.sentiment = "positive"}),
         negative |-> Count({r \in D : r.sentiment = "negative"})]

\* ... ORDER BY date DESC LIMIT 14
SentimentTrend ==
    LET G == {TrendGroup(date) : date \in {DateOf(r.created_at) : r \in AnalyzedRows}}
    IN  OrderByLimit(G, TrendLimit, DateDesc(G))

\* the rows as the query returns them, newest first
GetSentimentTrendNewestFirst ==
    /\ pc = "sentiment_trend"
    /\ \/ \E result \in SentimentTrend : Replied(Response(200, result))
       \/ Rejected

GetSentimentTrend ==
    /\ pc = "sentiment_trend"
    /\ \/ \E result \in SentimentTrend : Replied(Response(200, Reverse(result)))
       \/ Rejected

-----------------------------------------------------------------------------
(* getDistributions *)

\* SELECT column, COUNT(*) ... GROUP BY column over the rows S
Distribution(S, column) ==
    {[value |-> v, count |-> Count({r \in S : r[column] = v})] : v \in {r[column] : r \in S}}

\* the groups in no stated order
Unordered(G) == OrderByLimit(G, Cardinality(G), {})

GetDistributionsSentiment ==
    /\ pc = "distributions_sentiment"
    /\ \/ \E result \in Unordered(Distribution(AnalyzedRows, "sentiment")) :
            Resolved(result, "distributions_urgency")
       \/ Rejected

GetDistributionsUrgency ==
    /\ pc = "distributions_urgency"
    /\ \/ \E result \in Unordered(Distribution(AnalyzedRows, "urgency")) :
            Resolved(result, "distributions_value")
       \/ Rejected

GetDistributionsValue ==
    /\ pc = "distributions_value"
    /\ \/ \E result \in Unordered(Distribution(AnalyzedRows, "value_score")) :
            Resolved(result, "distributions_theme")
       \/ Rejected

\* ... WHERE analyzed = 1 AND theme != 'uncategorized' ... ORDER BY count DESC
ThemeDistribution ==
    LET G == Distribution(CategorizedRows, "theme")
    IN  OrderByLimit(G, Cardinality(G), CountDesc(G))

GetDistributionsTheme ==
    /\ pc = "distributions_theme"
    /\ \/ \E result \in ThemeDistribution :
            Replied(Response(200, [sentiment |-> acc[1], urgency |-> acc[2],
                                   value |-> acc[3], theme |-> result]))
       \/ Rejected

-----------------------------------------------------------------------------
(* getFeedback.  The value of the limit parameter is a sequence of          *)
(* characters; the other parameters are opaque strings.                    *)

Digits == <<"0", "1", "2", "3", "4", "5", "6", "7", "8", "9">>

IsDigit(ch) == \E d \in 1..Len(Digits) : Digits[d] = ch

DigitValue(ch) == (CHOOSE d \in 1..Len(Digits) : Digits[d] = ch) - 1

\* the value of a run of digits
RECURSIVE DigitsValue(_)
DigitsValue(chars) ==
    IF chars = <<>> THEN 0
    ELSE 10 * DigitsValue(SubSeq(chars, 1, Len(chars) - 1)) + DigitValue(chars[Len(chars)])

\* the longest prefix of chars made of digits
RECURSIVE LeadingDigits(_)
LeadingDigits(chars) ==
    IF chars = <<>> \/ ~IsDigit(Head(chars)) THEN <<>>
    ELSE <<Head(chars)>> \o LeadingDigits(Tail(chars))

NaN == [nan |-> TRUE, v |-> 0]
Int32(n) == [nan |-> FALSE, v |-> n]

\* parseInt: an optional sign, then the leading digits; NaN without a digit
ParseInt(chars) ==
    LET signed == chars # <<>> /\ Head(chars) \in {"-", "+"}
        digits == LeadingDigits(IF signed THEN Tail(chars) ELSE chars)
    IN  IF digits = <<>> THEN NaN
        ELSE IF signed /\ Head(chars) = "-" THEN Int32(0 - DigitsValue(digits))
        ELSE Int32(DigitsValue(digits))

\* the limit parameter ignored
FeedbackLimitDefault(q) == ParseInt(<<"5", "0">>)

\* parseInt(url.searchParams.get('limit') || '50')
FeedbackLimit(q) ==
    ParseInt(IF ~q.limit.has \/ q.limit.v = <<>> THEN <<"5", "0">> ELSE q.limit.v)

\* the test as sentiment alone
FilteringAny(p) == ~Falsy(p)

\* sentiment && sentiment !== 'all'
Filtering(p) == ~Falsy(p) /\ p.v # "all"

FilterColumns == <<"sentiment", "theme", "urgency", "channel">>

\* the filter columns that add a clause, in the order of the ifs
ActiveFilters(q) == SelectSeq(FilterColumns, LAMBDA col : Filtering(q[col]))

\* a piece of query text, and the column it compares with a placeholder
Clause(text, column) == [text |-> text, column |-> column]

FilterClause(column) ==
    CASE column = "sentiment" -> Clause(" AND sentiment = ?", column)
      [] column = "theme" -> Clause(" AND theme = ?", column)
      [] column = "urgency" -> Clause(" AND urgency = ?", column)
      [] column = "channel" -> Clause(" AND channel = ?", column)

\* the values written into the query text
FeedbackQueryInterpolated(q) ==
    <<Clause("SELECT * FROM feedback WHERE analyzed = 1", "")>>
    \o [i \in 1..Len(ActiveFilters(q)) |->
            Clause(q[ActiveFilters(q)[i]].v, ActiveFilters(q)[i])]
    \o <<Clause(" ORDER BY created_at DESC LIMIT ?", "")>>

\* query: the fixed head, one clause per active filter, the tail
FeedbackQuery(q) ==
    <<Clause("SELECT * FROM feedback WHERE analyzed = 1", "")>>
    \o [i \in 1..Len(ActiveFilters(q)) |-> FilterClause(ActiveFilters(q)[i])]
    \o <<Clause(" ORDER BY created_at DESC LIMIT ?", "")>>

\* params: one value per active filter
FeedbackParams(q) == [i \in 1..Len(ActiveFilters(q)) |-> q[ActiveFilters(q)[i]].v]

\* The rows the built query selects with its parameters bound: clause i + 1
\* of the text compares its column with parameter i
FeedbackMatches(sql, params) ==
    {r \in AnalyzedRows :
        \A i \in 1..Len(params) : r[sql[i + 1].column] = params[i]}

\* LIMIT n: a negative n is no limit
FeedbackRows(sql, params, limit) ==
    LET S == FeedbackMatches(sql, params)
    IN  OrderByLimit(S, IF limit < 0 THEN Cardinality(S) ELSE limit, CreatedDesc(S))

\* The query is built and run; binding NaN as the limit makes it reject
GetFeedback ==
    /\ pc = "feedback"
    /\ LET sql == FeedbackQuery(req.query)
           params == FeedbackParams(req.query)
           limit == FeedbackLimit(req.query)
       IN  \/ /\ ~limit.nan
              /\ \E result \in FeedbackRows(sql, params, limit.v) :
                    /\ dbCalls' = dbCalls + 1
                    /\ acc' = <<[sql |-> sql, params |-> params, limit |-> limit.v]>>
                    /\ UNCHANGED <<store, req, aiCalls, aiInput, dbFailed>>
                    /\ Return(Response(200, result))
           \/ Rejected

-----------------------------------------------------------------------------
(* Specifications *)

Init ==
    /\ store = <<>>
    /\ req = NoRequest
    /\ pc = "idle"
    /\ acc = <<>>
    /\ reply = NoReply
    /\ aiCalls = 0
    /\ dbCalls = 0
    /\ aiInput = <<>>
    /\ dbFailed = 0

\* A row as the schema's defaults leave it: not yet analyzed
InsertPending(created_at, channel, content) ==
    Insert(created_at, channel, content, "pending", 0, "uncategorized", "low", 0)

(* The classification and summarization pipelines, and the input guards *)

ContentOpts == {Absent, Given(""), Given("builds are slow")}

TextsOpts == {NoTexts, Texts(<<>>), Texts(<<"t1">>), Texts(<<"t1", "t2">>)}

ClassifyRequests ==
    {Request("POST", "/api/analyze", NoQuery, Body(TRUE, c, NoTexts, Absent)) : c \in ContentOpts}
    \cup {Request("POST", "/api/summarize", NoQuery, Body(TRUE, Absent, t, Given("pricing"))) :
            t \in TextsOpts}
    \cup {Request("GET", "/api/theme-detail", ThemeQuery(t), NoBody) :
            t \in {Absent, Given(""), Given("pricing")}}
    \cup {Request("POST", "/api/analyze", NoQuery, NoBody),
          Request("GET", "/api/analyze", NoQuery, NoBody),
          Request("OPTIONS", "/api/analyze", NoQuery, NoBody),
          Request("GET", "/api/unknown", NoQuery, NoBody)}

ClassifyFetch == \E r \in ClassifyRequests : Fetch(r)

ClassifyIngest ==
    /\ Len(store) < MaxClassifyRows
    /\ \/ InsertPending(0, "github", "c1")
       \/ \E s \in {"positive", "negative"} :
            Insert(0, "github", "c1", s, 5, "pricing", "high", 1)

AnalyzeAISettles == \E outcome \in AIOutcomes : AnalyzeAI(outcome)

SummarizeAISettles == \E outcome \in AIOutcomes : SummarizeAI(outcome)

ClassifyNext ==
    \/ ClassifyFetch
    \/ ClassifyIngest
    \/ AnalyzeBody
    \/ AnalyzeAISettles
    \/ SummarizeBody
    \/ SummarizeAISettles
    \/ GetThemeDetailStats
    \/ GetThemeDetailChannels
    \/ GetThemeDetailSamples
    \/ GetThemeDetailTrend
    \/ GetThemeDetailRecent

ClassifySpec == Init /\ [][ClassifyNext]_vars

(* The overview over a table being filled *)

OverviewRequests == {Request("GET", "/api/overview", NoQuery, NoBody)}

OverviewFetch == \E r \in OverviewRequests : Fetch(r)

OverviewIngest ==
    /\ Len(store) < MaxOverviewRows
    /\ \/ InsertPending(0, "discord", "c0")
       \/ \E sentiment \in Sentiments, urgency \in {"low", "critical"}, score \in {-5, 5} :
            Insert(0, "github", "c1", sentiment, score, "pricing", urgency, 1)

OverviewNext ==
    \/ OverviewFetch
    \/ OverviewIngest
    \/ GetOverviewStats
    \/ GetOverviewTopThemes
    \/ GetOverviewChannels
    \/ GetOverviewTopTheme

OverviewSpec == Init /\ [][OverviewNext]_vars

(* The theme ranking over a table seeded before the worker serves.  Rows  *)
(* come theme by theme: each row has the theme of the row before it or   *)
(* the next one of ThemeSeq.                                             *)

ThemeSeq == <<"uncategorized", "performance", "pricing", "documentation",
              "developer-experience", "reliability", "feature-request", "other">>

\* one urgent and one other level per theme, all four levels over the themes
ThemeUrgencies(i) == IF i % 2 = 0 THEN {"critical", "low"} ELSE {"high", "medium"}

ThemesIngest ==
    /\ pc = "idle"
    /\ Len(store) < MaxThemeRows
    /\ \E i \in 1..Len(ThemeSeq) : \E urgency \in ThemeUrgencies(i) :
        /\ IF store = <<>> THEN i <= 2
           ELSE \E last \in {i - 1, i} :
                    last >= 1 /\ store[Len(store)].theme = ThemeSeq[last]
        /\ Insert(0, "github", "c1",
                  (IF urgency \in UrgentLevels THEN "negative"
                   ELSE IF urgency = "low" THEN "positive" ELSE "neutral"),
                  (IF urgency \in UrgentLevels THEN -5
                   ELSE IF urgency = "low" THEN 5 ELSE 0),
                  ThemeSeq[i], urgency, 1)

ThemesNext ==
    \/ OverviewFetch
    \/ ThemesIngest
    \/ GetOverviewStats
    \/ GetOverviewTopThemes
    \/ GetOverviewChannels
    \/ GetOverviewTopTheme

ThemesSpec == Init /\ [][ThemesNext]_vars

(* The theme table over the same table *)

TableSpec ==
    Init /\ [][ThemesIngest \/ Fetch(Request("GET", "/api/themes", NoQuery, NoBody))
               \/ GetThemes]_vars

(* The whole worker: every route, over a small table *)

WorkerQueries ==
    {NoQuery, ThemeQuery(Given("pricing")),
     Query(Given("positive"), Given("all"), Absent, Given("github"), Limit(<<"1">>)),
     Query(Absent, Absent, Given("high"), Absent, Limit(<<"x">>)),
     Query(Given("all"), Absent, Absent, Absent, Limit(<<"-", "1">>))}

WorkerRequests ==
    {Request("GET", path, NoQuery, NoBody) :
        path \in {"/", "/api/overview", "/api/themes", "/api/sentiment-trend",
                  "/api/distributions", "/api/analyze", "/api/summarize", "/favicon.ico"}}
    \cup {Request("GET", path, q, NoBody) :
            path \in {"/api/feedback", "/api/theme-detail"}, q \in WorkerQueries}
    \cup {Request("POST", "/api/analyze", NoQuery, Body(TRUE, c, NoTexts, Absent)) :
            c \in ContentOpts}
    \cup {Request("POST", "/api/summarize", NoQuery, Body(TRUE, Absent, t, Given("pricing"))) :
            t \in TextsOpts}
    \cup {Request("POST", path, NoQuery, NoBody) : path \in {"/api/analyze", "/api/summarize"}}
    \cup {Request("OPTIONS", "/api/overview", NoQuery, NoBody)}

WorkerFetch == \E r \in WorkerRequests : Fetch(r)

\* Rows are inserted, pending or analyzed; a pending row is rewritten with
\* a classification that is not yet marked analyzed
WorkerIngest ==
    \/ /\ Len(store) < MaxWorkerRows
       /\ \/ InsertPending(0, "discord", "c0")
          \/ \E created_at \in {1, 2} :
                Insert(created_at, "github", "c1",
                       (IF created_at = 1 THEN "positive" ELSE "negative"),
                       5, "pricing", "high", 1)
    \/ \E i \in 1..Len(store) :
        /\ store[i].analyzed = 0
        /\ store[i].theme = "uncategorized"
        /\ store' = [store EXCEPT ![i] = [@ EXCEPT !.channel = "twitter",
                                                   !.sentiment = "negative",
                                                   !.sentiment_score = -5,
                                                   !.theme = "pricing",
                                                   !.urgency = "critical"]]
        /\ UNCHANGED <<req, pc, acc, reply, aiCalls, dbCalls, aiInput, dbFailed>>

WorkerAIOutcomes ==
    {AIThrows, AINull, AINoResponse, AIText(<<Prose>>),
     AIText(<<LBrace, StrMember("sentiment", "positive"), RBrace>>)}

WorkerAnalyzeAISettles == \E outcome \in WorkerAIOutcomes : AnalyzeAI(outcome)

WorkerSummarizeAISettles == \E outcome \in WorkerAIOutcomes : SummarizeAI(outcome)

Next ==
    \/ WorkerFetch
    \/ WorkerIngest
    \/ AnalyzeBody
    \/ WorkerAnalyzeAISettles
    \/ SummarizeBody
    \/ WorkerSummarizeAISettles
    \/ GetOverviewStats
    \/ GetOverviewTopThemes
    \/ GetOverviewChannels
    \/ GetOverviewTopTheme
    \/ GetFeedback
    \/ GetThemes
    \/ GetSentimentTrend
    \/ GetThemeDetailStats
    \/ GetThemeDetailChannels
    \/ GetThemeDetailSamples
    \/ GetThemeDetailTrend
    \/ GetThemeDetailRecent
    \/ GetDistributionsSentiment
    \/ GetDistributionsUrgency
    \/ GetDistributionsValue
    \/ GetDistributionsTheme

Spec == Init /\ [][Next]_vars

\* The worker with every store query and every env.AI.run call settling:
\* a handler that can take its next step eventually takes it (each step of
\* a handler changes pc)
LiveSpec ==
    Spec /\ WF_pc(AnalyzeBody \/ WorkerAnalyzeAISettles
                  \/ SummarizeBody \/ WorkerSummarizeAISettles
                  \/ GetOverviewStats \/ GetOverviewTopThemes
                  \/ GetOverviewChannels \/ GetOverviewTopTheme
                  \/ GetFeedback \/ GetThemes \/ GetSentimentTrend
                  \/ GetThemeDetailStats \/ GetThemeDetailChannels
                  \/ GetThemeDetailSamples \/ GetThemeDetailTrend
                  \/ GetThemeDetailRecent
                  \/ GetDistributionsSentiment \/ GetDistributionsUrgency
                  \/ GetDistributionsValue \/ GetDistributionsTheme)

(* A table seeded before the worker serves, one analyzed row a day with  *)
(* the row's fields (theme included) following the day.  Among the first maxVaried rows a  *)
(* row may instead share the instant of the row before it at the next     *)
(* urgency level, fall on the day before the earliest one, or be a row    *)
(* not yet analyzed.                                                     *)

RowsIngest(maxRows, maxVaried) ==
    LET levels == <<"low", "critical", "medium", "high">>
        moods == <<"positive", "negative", "neutral">>
        times == {store[i].created_at : i \in 1..Len(store)}
        nextDay == IF store = <<>> THEN 0 ELSE 2 * (DateOf(Max(times)) + 1)
        dayBefore == 2 * (DateOf(Min(times)) - 1)
        last == store[Len(store)]
        OfDay(t) ==
            Insert(t, (IF DateOf(t) % 2 = 0 THEN "github" ELSE "discord"), "c1",
                   moods[(DateOf(t) % 3) + 1], 5 - 5 * (DateOf(t) % 3),
                   (CASE DateOf(t) % 10 = 4 -> "performance"
                      [] DateOf(t) % 10 = 9 -> "documentation"
                      [] DateOf(t) % 20 = 7 -> "uncategorized"
                      [] OTHER -> "pricing"),
                   levels[(DateOf(t) % 4) + 1], 1)
    IN  /\ pc = "idle"
        /\ Len(store) < maxRows
        /\ \/ OfDay(nextDay)
           \/ /\ store # <<>>
              /\ Len(store) < maxVaried
              /\ \/ \E k \in 1..3 :
                        /\ last.analyzed = 1
                        /\ last.urgency = levels[k]
                        /\ Insert(last.created_at, last.channel, "c1", last.sentiment,
                                  last.sentiment_score, last.theme, levels[k + 1], 1)
                 \/ OfDay(dayBefore)
                 \/ InsertPending(nextDay, "github", "c0")

(* The per-day and per-theme views *)

DetailFetch ==
    \/ Fetch(Request("GET", "/api/sentiment-trend", NoQuery, NoBody))
    \/ \E theme \in {"pricing", "performance"} :
            Fetch(Request("GET", "/api/theme-detail", ThemeQuery(Given(theme)), NoBody))

DetailSpec ==
    Init /\ [][RowsIngest(MaxDetailRows, MaxVariedRows) \/ DetailFetch
               \/ GetSentimentTrend \/ GetThemeDetailStats
               \/ GetThemeDetailChannels \/ GetThemeDetailSamples
               \/ GetThemeDetailTrend \/ GetThemeDetailRecent]_vars

(* The per-day and per-theme views as the first worker serves them; its  *)
(* router and its getSentimentTrend are those of the second worker's text *)

Analyser1Spec ==
    Init /\ [][RowsIngest(MaxDetailRows, MaxVariedRows) \/ DetailFetch
               \/ GetSentimentTrend
               \/ Analyser1GetThemeDetailStats \/ GetThemeDetailChannels
               \/ GetThemeDetailSamples \/ Analyser1GetThemeDetailTrend]_vars

(* The feedback list with filters omitted, "all" and concrete, with and  *)
(* without a limit                                                       *)

FeedbackSpec ==
    Init /\ [][RowsIngest(MaxFeedbackRows, MaxFeedbackVaried) \/ GetFeedback
               \/ \E q \in {Query(s, t, Absent, Absent, l) :
                            s \in {Absent, Given("all"), Given("positive")},
                            t \in {Absent, Given("all"), Given("pricing")},
                            l \in {NoLimit, Limit(<<"2">>)}}
                        \cup {Query(Absent, Absent, u, c, NoLimit) :
                                u \in {Absent, Given("all"), Given("low")},
                                c \in {Absent, Given("all"), Given("github")}}
                        \cup {Query(Given("negative"), Absent, Absent, Absent,
                                    Limit(<<"6", "0">>)),
                              Query(Given("' OR '1'='1"), Given("pricing"), Absent,
                                    Given(""), Limit(<<"0", "7">>)),
                              Query(Absent, Given("performance"), Given("critical"),
                                    Given("all"), Limit(<<>>))} :
                    Fetch(Request("GET", "/api/feedback", q, NoBody))]_vars

(* The samples over rows of any urgency value.  The column is TEXT DEFAULT *)
(* 'low' with no constraint: a row may hold a value that is no level, or  *)
(* NULL (here the value "NULL", equal to no level).                       *)

SamplesIngest ==
    /\ pc = "idle"
    /\ Len(store) < MaxSampleRows
    /\ \E created_at \in {0, 1}, urgency \in Urgencies \cup {"asap", "NULL"} :
        store' = Append(store, Row(Len(store) + 1, created_at, "github", "c1",
                                   "neutral", 0, "pricing", urgency, 1))
    /\ UNCHANGED <<req, pc, acc, reply, aiCalls, dbCalls, aiInput, dbFailed>>

SamplesSpec ==
    Init /\ [][SamplesIngest
               \/ Fetch(Request("GET", "/api/theme-detail", ThemeQuery(Given("pricing")), NoBody))
               \/ GetThemeDetailStats \/ GetThemeDetailChannels
               \/ GetThemeDetailSamples \/ GetThemeDetailTrend
               \/ GetThemeDetailRecent]_vars

(* Summarization of short and long text sequences *)

\* feedbackTexts: missing, or the first n of the names in either order
SummarizeTexts ==
    LET names == <<"t1", "t2", "t3", "t4", "t5", "t6", "t7", "t8", "t9", "t10",
                   "t11", "t12", "t13", "t14">>
    IN  {NoTexts}
        \cup {Texts(SubSeq(names, 1, n)) : n \in 0..MaxTexts}
        \cup {Texts(Reverse(SubSeq(names, 1, n))) : n \in 0..MaxTexts}

SummarizeSpec ==
    Init /\ [][SummarizeBody \/ WorkerSummarizeAISettles
               \/ Fetch(Request("POST", "/api/summarize", NoQuery, NoBody))
               \/ \E t \in SummarizeTexts :
                    Fetch(Request("POST", "/api/summarize", NoQuery,
                                  Body(TRUE, Absent, t, Given("pricing"))))]_vars

-----------------------------------------------------------------------------
(* The classification pipeline: C1 - C7 *)

\* a field that is absent or the empty string
EmptyOrMissing(p) == p = Absent \/ p = Given("")

\* classify has answered a request it accepted (non-empty content)
Classified ==
    /\ pc = "done"
    /\ req.path = "/api/analyze"
    /\ req.method = "POST"
    /\ req.body.ok
    /\ ~EmptyOrMissing(req.body.content)

\* what env.AI.run did for the request just answered
Outcome == acc[1]

\* a result whose fields are all present and within their domains
InDomain(obj) ==
    /\ \E m \in obj : m.key = "sentiment" /\ m.sval \in Sentiments
    /\ \E m \in obj : m.key = "theme" /\ m.sval \in Themes
    /\ \E m \in obj : m.key = "urgency" /\ m.sval \in Urgencies
    /\ \E m \in obj : m.key = "sentiment_score" /\ m.sval = ""
                      /\ m.nval >= ScoreMin /\ m.nval <= ScoreMax
    /\ \A m, n \in obj : m.key = n.key => m = n

\* the fixed fallback record: neutral, 0, other, medium
IsFallback(obj) ==
    /\ InDomain(obj)
    /\ StrMember("sentiment", "neutral") \in obj
    /\ NumMember("sentiment_score", 0) \in obj
    /\ StrMember("theme", "other") \in obj
    /\ StrMember("urgency", "medium") \in obj

\* C1: whatever the classifier does, the result classify returns for a
\* non-empty content has sentiment, theme and urgency within their closed
\* enums and sentiment_score within [-1, 1].
C1_ResultInDomain == Classified => InDomain(reply.body)

\* the extracted text from the first '{' to the last '}', when there is one
Extracted(text) ==
    LET opens == {i \in 1..Len(text) : text[i].kind = "{"}
        closes == {j \in 1..Len(text) : text[j].kind = "}"}
    IN  IF opens = {} \/ closes = {} \/ Max(closes) < Min(opens) THEN <<>>
        ELSE SubSeq(text, Min(opens), Max(closes))

\* text is one JSON object: a brace, members, a brace
Decodable(text) ==
    /\ Len(text) >= 2
    /\ text[1].kind = "{"
    /\ text[Len(text)].kind = "}"
    /\ \A i \in 2..(Len(text) - 1) : text[i].kind = "m"

\* the value the decoded object gives to key (the last member with that key)
Decoded(text, key) ==
    LET at == {i \in 2..(Len(text) - 1) : text[i].key = key}
    IN  text[Max(at)]

\* the response decodes to an object with a sentiment, theme or urgency
\* outside its enum
OutOfDomain(text) ==
    /\ Decodable(Extracted(text))
    /\ \E i \in 2..(Len(Extracted(text)) - 1) :
        LET m == Decoded(Extracted(text), Extracted(text)[i].key)
        IN  \/ m.key = "sentiment" /\ m.sval \notin Sentiments
            \/ m.key = "theme" /\ m.sval \notin Themes
            \/ m.key = "urgency" /\ m.sval \notin Urgencies

\* C2: a response that decodes but carries a sentiment, theme or urgency
\* outside its enum is a validation failure: classify returns the fixed
\* fallback record and the out-of-domain value is not in the result.
C2_InvalidEnumFallsBack ==
    (Classified /\ Outcome.kind = "text" /\ OutOfDomain(Outcome.text))
        => /\ IsFallback(reply.body)
           /\ \A m \in reply.body :
                /\ m.key = "sentiment" => m.sval \in Sentiments
                /\ m.key = "theme" => m.sval \in Themes
                /\ m.key = "urgency" => m.sval \in Urgencies

\* the classifier failed outright: the call threw, resolved to nothing, to
\* an object without response text, or to text that is not decodable
Unusable(outcome) ==
    \/ outcome.kind \in {"throws", "null", "noresponse"}
    \/ outcome.kind = "text" /\ ~Decodable(Extracted(outcome.text))

\* C3: for non-empty content classify never fails towards its caller: it
\* replies 200, and with a usable in-domain record when the classifier call
\* threw, gave no response text, gave null, or gave unparsable text.
C3_NeverPropagates ==
    Classified => /\ reply.status = 200
                  /\ Unusable(Outcome) => InDomain(reply.body)

C3_Witness ==
    /\ Classified
    /\ Outcome.kind = "null"
    /\ reply.status = 200
    /\ IsFallback(reply.body)

\* C4: a response with no '{...}' substring, or whose extracted substring
\* is not decodable JSON, yields the fixed fallback result.
C4_UnparsableFallsBack ==
    (Classified /\ Outcome.kind = "text" /\ ~Decodable(Extracted(Outcome.text)))
        => /\ reply.status = 200
           /\ IsFallback(reply.body)
           /\ StrMember("summary", "Unable to parse AI response") \in reply.body

C4_Witness ==
    /\ Classified
    /\ Outcome.kind = "text"
    /\ Len(Extracted(Outcome.text)) > 2
    /\ ~Decodable(Extracted(Outcome.text))
    /\ IsFallback(reply.body)

BraceFree(text) == \A i \in 1..Len(text) : text[i].kind \notin {"{", "}"}

\* the members written between the braces of an object text
Members(object) == {object[i] : i \in 2..(Len(object) - 1)}

\* C5: a single valid JSON object surrounded by prose without braces is
\* extracted and returned field for field, nothing replaced by a fallback.
C5_ObjectReturnedExactly ==
    (Classified /\ Outcome.kind = "text")
        => \A before \in Prefixes, object \in ObjectTexts, after \in Suffixes :
            (/\ BraceFree(before)
             /\ BraceFree(after)
             /\ Outcome.text = before \o object \o after)
                => /\ reply.status = 200
                   /\ reply.body = Members(object)

C5_Witness ==
    /\ Classified
    /\ Outcome.kind = "text"
    /\ Outcome.text = <<Prose, LBrace, StrMember("sentiment", "positive"),
                        NumMember("sentiment_score", 7), StrMember("theme", "pricing"),
                        StrMember("urgency", "low"), StrMember("summary", "ok"),
                        RBrace, Prose>>
    /\ reply.body = {StrMember("sentiment", "positive"), NumMember("sentiment_score", 7),
                     StrMember("theme", "pricing"), StrMember("urgency", "low"),
                     StrMember("summary", "ok")}

\* a classify or summarize request whose input was accepted
Accepted ==
    /\ req.method = "POST"
    /\ req.body.ok
    /\ \/ req.path = "/api/analyze" /\ ~EmptyOrMissing(req.body.content)
       \/ req.path = "/api/summarize" /\ req.body.texts.has /\ Len(req.body.texts.v) > 0

\* C6: a classify or summarize request calls the generative-text capability
\* at most once: once when the input is accepted, never when it is rejected
\* or short-circuited, and not again after a failure.
C6_AtMostOneAttempt ==
    /\ aiCalls <= 1
    /\ (pc = "done" /\ req.path \in {"/api/analyze", "/api/summarize"})
            => aiCalls = (IF Accepted THEN 1 ELSE 0)

C6_Witness ==
    /\ pc = "done"
    /\ req.path = "/api/summarize"
    /\ Accepted
    /\ Outcome.kind = "throws"
    /\ aiCalls = 1

\* C7: a classify request without content, and a theme-detail request
\* without theme, get the invalid-input reply (400, not 500) before any
\* classifier call or store query.
C7_InvalidInputRejected ==
    /\ (/\ pc = "done"
        /\ req.path = "/api/analyze"
        /\ req.method = "POST"
        /\ req.body.ok
        /\ EmptyOrMissing(req.body.content))
            => reply.status = 400 /\ aiCalls = 0 /\ dbCalls = 0
    /\ (/\ pc = "done"
        /\ req.path = "/api/theme-detail"
        /\ req.method # "OPTIONS"
        /\ EmptyOrMissing(req.query.theme))
            => reply.status = 400 /\ aiCalls = 0 /\ dbCalls = 0

C7_Witness ==
    /\ pc = "done"
    /\ req.path = "/api/theme-detail"
    /\ req.query.theme = Given("")
    /\ reply = ThemeRequired
    /\ dbCalls = 0

-----------------------------------------------------------------------------
(* The overview: C8 - C10 *)

\* an overview request has been answered from the store
OverviewReplied ==
    /\ pc = "done"
    /\ req.path = "/api/overview"
    /\ req.method # "OPTIONS"
    /\ reply.status = 200

\* C8: over a non-empty set of analyzed items, the overview's positive,
\* neutral and negative counts sum to its total count.
C8_SentimentCountsSumToTotal ==
    (OverviewReplied /\ reply.body.stats.total_feedback.v > 0)
        => LET stats == reply.body.stats
           IN  /\ ~stats.positive.null /\ ~stats.neutral.null /\ ~stats.negative.null
               /\ stats.positive.v + stats.neutral.v + stats.negative.v
                    = stats.total_feedback.v

C8_Witness ==
    /\ OverviewReplied
    /\ reply.body.stats.total_feedback.v = 2
    /\ reply.body.stats.neutral.v = 1
    /\ reply.body.stats.negative.v = 1

\* C9: with no analyzed row the overview does not fail and reports
\* total = 0 and a mean sentiment that is the number 0, not null.
C9_EmptyMeanIsZero ==
    (/\ pc = "done"
     /\ req.path = "/api/overview"
     /\ req.method # "OPTIONS"
     /\ reply.status = 200
     /\ reply.body.stats.total_feedback.v = 0)
        => /\ reply.body.stats.total_feedback = Num(0)
           /\ ~reply.body.stats.avg_sentiment.null
           /\ reply.body.stats.avg_sentiment.num = 0


\* the analyzed rows of a theme, and the urgent ones among them
RowsOfTheme(theme) ==
    {i \in 1..Len(store) : store[i].analyzed = 1 /\ store[i].theme = theme}

UrgentOfTheme(theme) ==
    {i \in RowsOfTheme(theme) : store[i].urgency \in {"critical", "high"}}

\* theme a ranks strictly above theme b
RanksAbove(a, b) ==
    \/ Cardinality(UrgentOfTheme(a)) > Cardinality(UrgentOfTheme(b))
    \/ /\ Cardinality(UrgentOfTheme(a)) = Cardinality(UrgentOfTheme(b))
       /\ Cardinality(RowsOfTheme(a)) > Cardinality(RowsOfTheme(b))

\* top is a correct answer of the Top Themes query over the table
TopThemesCorrect(top) ==
    /\ Len(top) <= 5
    /\ \A i \in 1..Len(top) :
        /\ top[i].theme # "uncategorized"
        /\ top[i].count = Cardinality(RowsOfTheme(top[i].theme))
        /\ top[i].count > 0
        /\ top[i].urgent_count = Cardinality(UrgentOfTheme(top[i].theme))
    /\ \A i, j \in 1..Len(top) :
        i < j => /\ top[i].theme # top[j].theme
                 /\ \/ top[i].urgent_count > top[j].urgent_count
                    \/ /\ top[i].urgent_count = top[j].urgent_count
                       /\ top[i].count >= top[j].count
    /\ \A i \in 1..Len(store) :
        (/\ store[i].analyzed = 1
         /\ store[i].theme # "uncategorized"
         /\ \A j \in 1..Len(top) : top[j].theme # store[i].theme)
            => /\ Len(top) = 5
               /\ \A j \in 1..Len(top) : ~RanksAbove(store[i].theme, top[j].theme)

\* C10: Top Themes are at most 5 themes, never 'uncategorized', in
\* descending order of urgent count (urgency critical or high) and, among
\* equal urgent counts, of total count; no theme left out ranks strictly
\* above a returned one.  Stated of the step in which the query is answered.
C10_TopThemesRanked ==
    [][(pc = "overview_topThemes" /\ pc' = "overview_channels")
            => TopThemesCorrect(acc'[2])]_vars

C10_Witness ==
    /\ OverviewReplied
    /\ Len(reply.body.topThemes) = 5
    /\ Cardinality({store[i].theme : i \in 1..Len(store)} \ {"uncategorized"}) = 6
    /\ reply.body.topThemes[1].urgent_count = 1
    /\ reply.body.topThemes[4].urgent_count = 1
    /\ reply.body.topThemes[5].urgent_count = 0

-----------------------------------------------------------------------------
(* The theme table: C11 *)

\* the rows of a theme that satisfy a condition on a column
CountOfTheme(theme, column, value) ==
    Cardinality({i \in RowsOfTheme(theme) : store[i][column] = value})

\* C11: the theme table has one row for every theme other than
\* 'uncategorized' that has an analyzed row, however many there are, each
\* with the theme's total, positive, negative, critical and high counts,
\* in descending order of total.
C11_ThemeTableComplete ==
    (pc = "done" /\ req.path = "/api/themes" /\ reply.status = 200)
        => LET table == reply.body
           IN  /\ {table[i].theme : i \in 1..Len(table)} =
                    {store[i].theme : i \in {k \in 1..Len(store) : store[k].analyzed = 1}}
                        \ {"uncategorized"}
               /\ \A i \in 1..Len(table) : \A j \in 1..Len(table) :
                    i < j => /\ table[i].theme # table[j].theme
                             /\ table[i].total >= table[j].total
               /\ \A i \in 1..Len(table) :
                    /\ table[i].total = Cardinality(RowsOfTheme(table[i].theme))
                    /\ table[i].positive = CountOfTheme(table[i].theme, "sentiment", "positive")
                    /\ table[i].negative = CountOfTheme(table[i].theme, "sentiment", "negative")
                    /\ table[i].critical = CountOfTheme(table[i].theme, "urgency", "critical")
                    /\ table[i].high = CountOfTheme(table[i].theme, "urgency", "high")

C11_Witness ==
    /\ pc = "done"
    /\ req.path = "/api/themes"
    /\ reply.status = 200
    /\ Len(store) = 6
    /\ store[1].theme = "uncategorized"
    /\ Len(reply.body) = 4
    /\ reply.body[1].total = 2
    /\ reply.body[1].positive = 1
    /\ reply.body[1].critical = 1
    /\ reply.body[2].theme = "documentation"
    /\ reply.body[4].theme = "pricing"

-----------------------------------------------------------------------------
(* The per-day and per-theme views: C12 - C14 *)

\* the calendar days of a set of rows
Days(S) == {r.created_at \div 2 : r \in S}

\* the n most recent of a set of days
MostRecent(D, n) == {d \in D : Cardinality({e \in D : e > d}) < n}

\* the analyzed rows of a theme, read from the table itself
AnalyzedOfTheme(theme) ==
    {store[i] : i \in {k \in 1..Len(store) :
                        store[k].analyzed = 1 /\ store[k].theme = theme}}

AnalyzedInTable == {store[i] : i \in {k \in 1..Len(store) : store[k].analyzed = 1}}

\* buckets are those of the 14 most recent days of the rows S, one bucket a
\* day, in strictly ascending date order
Recent14Ascending(buckets, S) ==
    /\ Len(buckets) = Cardinality(MostRecent(Days(S), 14))
    /\ {buckets[i].date : i \in 1..Len(buckets)} = MostRecent(Days(S), 14)
    /\ \A i \in 1..Len(buckets) : \A j \in 1..Len(buckets) :
            i < j => buckets[i].date < buckets[j].date

\* C12: the sentiment trend is the per-day buckets of the 14 most recent
\* days that have analyzed rows (all of them if fewer), each counting the
\* analyzed rows of its day, in strictly ascending date order.
C12_SentimentTrendAscending ==
    (pc = "done" /\ req.path = "/api/sentiment-trend" /\ reply.status = 200)
        => /\ Recent14Ascending(reply.body, AnalyzedInTable)
           /\ \A i \in 1..Len(reply.body) :
                reply.body[i].total =
                    Cardinality({r \in AnalyzedInTable :
                                    r.created_at \div 2 = reply.body[i].date})

C12_Witness ==
    /\ pc = "done"
    /\ req.path = "/api/sentiment-trend"
    /\ reply.status = 200
    /\ Len(reply.body) = 14
    /\ Cardinality(Days(AnalyzedInTable)) > 14
    /\ \E i \in 1..Len(store) : store[i].created_at < store[1].created_at
    /\ \E i \in 1..14 : reply.body[i].total = 2

\* the severity rank of an urgency level
Severity(urgency) ==
    CHOOSE k \in 1..4 : <<"critical", "high", "medium", "low">>[k] = urgency

\* row a comes before row b in the sample order
SampleBefore(a, b) ==
    \/ Severity(a.urgency) < Severity(b.urgency)
    \/ Severity(a.urgency) = Severity(b.urgency) /\ a.created_at > b.created_at

\* C13: the samples of a theme-detail reply are at most 10 analyzed rows of
\* the requested theme, the first ones in the order of severity rank
\* critical, high, medium, low and, within a rank, of created_at
\* descending; rows of one instant come critical, high, medium, low.
C13_SamplesBySeverity ==
    (pc = "done" /\ req.path = "/api/theme-detail" /\ reply.status = 200)
        => LET samples == reply.body.samples
               S == AnalyzedOfTheme(req.query.theme.v)
               n == Len(samples)
           IN  /\ n = (IF Cardinality(S) < 10 THEN Cardinality(S) ELSE 10)
               /\ \A i \in 1..n : samples[i] \in S
               /\ \A i \in 1..n : \A j \in 1..n :
                    i < j => samples[i] # samples[j] /\ ~SampleBefore(samples[j], samples[i])
               /\ \A r \in S : \A i \in 1..n :
                    SampleBefore(r, samples[i]) => \E j \in 1..n : samples[j] = r

C13_Witness ==
    /\ pc = "done"
    /\ req.path = "/api/theme-detail"
    /\ reply.status = 200
    /\ Len(store) = 4
    /\ \A i \in 1..4 : store[i].created_at = store[1].created_at
    /\ [i \in 1..4 |-> store[i].urgency] = <<"low", "critical", "medium", "high">>
    /\ [i \in 1..4 |-> reply.body.samples[i].urgency] = <<"critical", "high", "medium", "low">>

\* C14: the trend of a theme-detail reply is the per-day buckets of the 14
\* most recent days on which the requested theme has analyzed rows (all of
\* them if fewer), in ascending date order.
C14_ThemeTrendRecent14 ==
    (pc = "done" /\ req.path = "/api/theme-detail" /\ reply.status = 200)
        => Recent14Ascending(reply.body.trend, AnalyzedOfTheme(req.query.theme.v))

-----------------------------------------------------------------------------
(* The feedback list: C15 - C17 *)

FeedbackReplied == pc = "done" /\ req.path = "/api/feedback" /\ reply.status = 200

FilterNames == {"sentiment", "theme", "urgency", "channel"}

\* a criterion that is present and not the sentinel
Constrains(p) == p.has /\ p.v # "" /\ p.v # "all"

\* the lists the store may return for the query q
Listings(q) == FeedbackRows(FeedbackQuery(q), FeedbackParams(q), FeedbackLimit(q).v)

\* C15: with a filter set to "all", the feedback list is the one of the
\* same request with that filter omitted: the same rows in the same order
\* (rows of one instant in the same possible orders).
C15_AllIsOmitted ==
    \A col \in FilterNames :
        req.query[col] = Given("all") =>
            /\ (req.path = "/api/feedback" /\ pc = "feedback") =>
                    Listings(req.query) = Listings([req.query EXCEPT ![col] = Absent])
            /\ FeedbackReplied =>
                    reply.body \in Listings([req.query EXCEPT ![col] = Absent])

C15_Witness ==
    /\ FeedbackReplied
    /\ req.query.sentiment = Given("all")
    /\ req.query.theme = Given("pricing")
    /\ Len(reply.body) = 2
    /\ reply.body[1].sentiment # reply.body[2].sentiment

\* the limit a request asks for
RequestedLimit ==
    CASE ~req.query.limit.has -> 50
      [] req.query.limit.v = <<>> -> 50
      [] req.query.limit.v = <<"2">> -> 2
      [] req.query.limit.v = <<"0", "7">> -> 7
      [] req.query.limit.v = <<"6", "0">> -> 60

\* the rows of the table that are analyzed and match every given filter
Matching ==
    {store[i] : i \in {k \in 1..Len(store) :
        /\ store[k].analyzed = 1
        /\ \A col \in FilterNames :
                Constrains(req.query[col]) => store[k][col] = req.query[col].v}}

\* C16: the feedback list has only analyzed rows that match every given
\* filter exactly, newest first, and never more rows than the requested
\* positive limit, 50 when none is given: it is the newest rows of those
\* that match, up to the limit.
C16_ListFilteredNewestFirst ==
    FeedbackReplied
        => LET rows == reply.body
               n == Len(reply.body)
           IN  /\ \A i \in 1..n : rows[i] \in Matching
               /\ \A i \in 1..n : \A j \in 1..n :
                    i < j => rows[i] # rows[j] /\ rows[i].created_at >= rows[j].created_at
               /\ n <= RequestedLimit
               /\ n = RequestedLimit \/ n = Cardinality(Matching)
               /\ \A r \in Matching : \A i \in 1..n :
                    r.created_at > rows[i].created_at => \E j \in 1..n : rows[j] = r

C16_Witness ==
    /\ FeedbackReplied
    /\ req.query = NoQuery
    /\ Len(reply.body) = 50
    /\ Cardinality(Matching) > 50
    /\ \E i \in 1..Len(store) : store[i].analyzed = 0

\* requests with other values and limits
OtherQueries ==
    {Query(s, t, u, c, l) :
        s \in {Absent, Given("all"), Given("negative"), Given("x")},
        t \in {Absent, Given("other")},
        u \in {Absent, Given("high")},
        c \in {Absent, Given("discord")},
        l \in {NoLimit, Limit(<<"9">>)}}

\* C17: the query text of a feedback list depends only on which filters
\* are present and not "all": requests with the same such filters and
\* other values and limits build the same text; no value is in the text;
\* the values are the bound parameters, one per placeholder in placeholder
\* order, the limit being bound to the last one.
C17_ValuesAreBound ==
    FeedbackReplied
        => LET sql == acc[1].sql
               params == acc[1].params
           IN  /\ \A q \in OtherQueries :
                    (\A col \in FilterNames : Constrains(q[col]) <=> Constrains(req.query[col]))
                        => FeedbackQuery(q) = sql
               /\ \A i \in 1..Len(sql) : \A col \in FilterNames :
                    req.query[col].has => sql[i].text # req.query[col].v
               /\ Len(params) = Len(sql) - 2
               /\ Len(params) = Cardinality({col \in FilterNames : Constrains(req.query[col])})
               /\ \A i \in 1..Len(params) :
                    /\ Constrains(req.query[sql[i + 1].column])
                    /\ params[i] = req.query[sql[i + 1].column].v
               /\ acc[1].limit = RequestedLimit

C17_Witness ==
    /\ FeedbackReplied
    /\ req.query.sentiment = Given("' OR '1'='1")
    /\ Len(acc[1].sql) = 4
    /\ acc[1].params = <<"' OR '1'='1", "pricing">>
    /\ reply.body = <<>>
    /\ \E i \in 1..Len(store) : store[i].analyzed = 1 /\ store[i].theme = "pricing"

-----------------------------------------------------------------------------
(* Summarization: C18 - C20 *)

\* a summarize request whose body decoded
Summarizing ==
    /\ req.path = "/api/summarize"
    /\ req.method = "POST"
    /\ req.body.ok

\* C18: a summarize request with an empty or missing text sequence is
\* answered with the fixed no-feedback message, and the generative-text
\* capability is not invoked.
C18_EmptyShortCircuits ==
    (/\ pc = "done"
     /\ Summarizing
     /\ (~req.body.texts.has \/ req.body.texts.v = <<>>))
        => /\ reply.status = 200
           /\ reply.body.summary = Texts(Msg("No feedback to summarize."))
           /\ aiCalls = 0
           /\ aiInput = <<>>

C18_Witness ==
    /\ pc = "done"
    /\ Summarizing
    /\ req.body.texts = Texts(<<>>)
    /\ reply.status = 200
    /\ aiCalls = 0

\* the number of texts that reach the prompt
Embedded == IF Len(req.body.texts.v) < 10 THEN Len(req.body.texts.v) ELSE 10

\* C19: for a non-empty text sequence the prompt embeds exactly the first
\* min(10, n) texts, in their given order, joined by the fixed separator;
\* no text beyond the tenth is in it.
C19_PromptEmbedsFirstTen ==
    (/\ pc \in {"summarize_ai", "done"}
     /\ Summarizing
     /\ req.body.texts.has
     /\ req.body.texts.v # <<>>)
        => /\ aiCalls = 1
           /\ Len(aiInput) = 2 * Embedded - 1
           /\ \A i \in 1..Embedded : aiInput[2 * i - 1] = req.body.texts.v[i]
           /\ \A i \in 1..(Embedded - 1) : aiInput[2 * i] = "\n---\n"
           /\ \A i \in 1..Len(req.body.texts.v) :
                i > 10 => \A j \in 1..Len(aiInput) : aiInput[j] # req.body.texts.v[i]

C19_Witness ==
    /\ pc = "done"
    /\ Summarizing
    /\ Len(req.body.texts.v) = 12
    /\ req.body.texts.v[1] = "t12"
    /\ Len(aiInput) = 19
    /\ aiInput[19] = "t3"

\* C20: when the generative-text call of a summarize request fails, the
\* reply is a successful one whose summary is the fixed message that the
\* summary is unavailable; no outcome of the call gives an error reply.
C20_FailureFallsBack ==
    (pc = "done" /\ Summarizing /\ aiCalls = 1)
        => /\ reply.status = 200
           /\ Outcome.kind = "throws" =>
                reply.body.summary =
                    Texts(Msg("Unable to generate AI summary. Please review the feedback manually."))

C20_Witness ==
    /\ pc = "done"
    /\ Summarizing
    /\ aiCalls = 1
    /\ Outcome.kind = "throws"
    /\ reply.status = 200

-----------------------------------------------------------------------------
(* The views and the rows not yet analyzed: C21 *)

\* the sum of the count column of a query result
RECURSIVE TotalCount(_)
TotalCount(groups) ==
    IF groups = <<>> THEN 0 ELSE Head(groups).count + TotalCount(Tail(groups))

\* requests the views are compared for
ComparedThemes == {"pricing", "uncategorized"}

ComparedQueries ==
    {NoQuery, Query(Given("negative"), Absent, Absent, Absent, NoLimit),
     Query(Absent, Given("pricing"), Given("critical"), Given("twitter"), Limit(<<"1">>))}

\* what the store may answer to the queries of the aggregate views and of
\* listFeedback, the overview's channel query left out
AggregateViews ==
    <<OverviewStats, TopThemes, TopTheme, ThemeTable, SentimentTrend, ThemeDistribution,
      [theme \in ComparedThemes |->
        <<ThemeDetailStats(theme), ThemeDetailChannels(theme), ThemeDetailSamples(theme),
          ThemeDetailTrend(theme), ThemeDetailRecent(theme)>>],
      [q \in ComparedQueries |->
        FeedbackRows(FeedbackQuery(q), FeedbackParams(q), FeedbackLimit(q).v)]>>

\* C21: the aggregate views and listFeedback read only rows with
\* analyzed = true: a step that adds or changes rows not analyzed leaves
\* what each of them may return unchanged, and the sentiment, urgency and
\* value distributions count the analyzed rows only.  The overview's
\* channel distribution is the exception: it counts every row.
C21_OnlyAnalyzedRows ==
    [][/\ (store' # store /\ AnalyzedInTable' = AnalyzedInTable)
            => AggregateViews' = AggregateViews
       /\ \A k \in 1..3 :
            (/\ pc = <<"distributions_sentiment", "distributions_urgency",
                       "distributions_value">>[k]
             /\ Len(acc') = k)
                => TotalCount(acc'[k]) = Cardinality(AnalyzedInTable)
       /\ (pc = "overview_channels" /\ pc' = "overview_topTheme")
            => TotalCount(acc'[3]) = Len(store)]_vars

C21_Witness ==
    /\ OverviewReplied
    /\ Len(store) = 2
    /\ store[1].analyzed = 0
    /\ store[1].theme = "pricing"
    /\ store[1].urgency = "critical"
    /\ store[2].analyzed = 1
    /\ reply.body.stats.total_feedback = Num(1)
    /\ reply.body.stats.critical_count = Num(0)
    /\ Len(reply.body.topThemes) = 1
    /\ reply.body.topThemes[1].count = 1
    /\ TotalCount(reply.body.channels) = 2

-----------------------------------------------------------------------------
(* Requests served while the table grows: C22 *)

\* the analyzed rows of the table when it had its first n rows (rows are
\* only appended)
AnalyzedAmong(n) == {store[i] : i \in {k \in 1..n : store[k].analyzed = 1}}

Least(a, b) == IF a < b THEN a ELSE b

\* the parts of an overview reply are those of the table of n rows
OverviewOf(body, n) ==
    LET S == AnalyzedAmong(n)
        C == {r \in S : r.theme # "uncategorized"}
        top == body.topThemes
    IN  /\ body.stats.total_feedback.v = Cardinality(S)
        /\ Len(top) = Least(5, Cardinality({r.theme : r \in C}))
        /\ \A i \in 1..Len(top) :
                /\ top[i].count > 0
                /\ top[i].count = Cardinality({r \in C : r.theme = top[i].theme})
        /\ TotalCount(body.channels) = n
        /\ Len(body.topTheme) = Least(1, Cardinality(C))
        /\ \A i \in 1..Len(body.topTheme) :
                body.topTheme[i].count =
                    Cardinality({r \in C : r.theme = body.topTheme[i].theme})

\* the parts of a theme-detail reply are those of the table of n rows
ThemeDetailOf(body, n) ==
    LET S == {r \in AnalyzedAmong(n) : r.theme = body.theme}
    IN  /\ body.stats.total.v = Cardinality(S)
        /\ TotalCount(body.channels) = Cardinality(S)
        /\ Len(body.samples) = Least(10, Cardinality(S))
        /\ Len(body.trend) = Least(14, Cardinality(Days(S)))
        /\ Len(body.recentFeedbackTexts) = Least(10, Cardinality(S))

\* C22: while rows are inserted concurrently with an overview or a
\* theme-detail request, all parts of the reply reflect one and the same
\* state of the table: the stats total, the top-theme counts, the channel
\* counts and the most discussed theme of an overview, and the stats total,
\* the channel counts, the samples, the trend and the recent texts of a
\* theme detail, are those of the table as it was at one moment.
C22_OneStoreState ==
    /\ OverviewReplied => \E n \in 0..Len(store) : OverviewOf(reply.body, n)
    /\ (pc = "done" /\ req.path = "/api/theme-detail" /\ reply.status = 200)
            => \E n \in 0..Len(store) : ThemeDetailOf(reply.body, n)

-----------------------------------------------------------------------------
(* Store failures: C23 *)

ReadPaths == {"/api/overview", "/api/themes", "/api/sentiment-trend",
              "/api/theme-detail", "/api/distributions", "/api/feedback"}

\* C23: a store query that fails during a read operation ends the request
\* in the operational-failure reply (status 500, the error as its body),
\* never in a successful reply with partial or empty data; the failed
\* query is issued once: it is the one query issued beyond those answered,
\* and no query follows it.
C23_StoreFailurePropagates ==
    /\ dbFailed <= 1
    /\ dbFailed = 1
        => /\ req.path \in ReadPaths
           /\ pc = "done"
           /\ reply.status = 500
           /\ reply.body = {StrMember("error", "error.message")}
           /\ dbCalls = (IF req.path = "/api/feedback" THEN 0 ELSE Len(acc)) + 1

C23_Witness ==
    /\ pc = "done"
    /\ req.path = "/api/overview"
    /\ dbFailed = 1
    /\ Len(acc) = 2
    /\ acc[1].total_feedback = Num(1)
    /\ dbCalls = 3
    /\ reply.status = 500

-----------------------------------------------------------------------------
(* The core and the table: C24 *)

\* C24: no operation of the core changes the feedback table: a step in
\* which the set of rows or a field of a row changes is never a step of a
\* request (overview, themes, trend, theme detail, distributions,
\* listFeedback, classify, summarize, or the dispatch itself); it is a step
\* of a writer outside the core.  In particular classify creates no row.
C24_StoreUnchanged ==
    [][store' # store
        => UNCHANGED <<req, pc, acc, reply, aiCalls, dbCalls, aiInput, dbFailed>>]_vars

C24_Witness ==
    /\ pc = "done"
    /\ req.path = "/api/analyze"
    /\ req.method = "POST"
    /\ aiCalls = 1
    /\ reply.status = 200
    /\ StrMember("sentiment", "positive") \in reply.body
    /\ store = <<>>

-----------------------------------------------------------------------------
(* Nothing kept between requests: C25 *)

\* C25: the core keeps no state between invocations.  When a request is
\* dispatched, whatever was handled before, nothing of the earlier request
\* is left: no query result, no count, no prompt, and a reply only if the
\* request is answered by the dispatcher itself, with one of its three
\* fixed replies.  From there on the handler reads the request, the table
\* and the outcome of its external call only.
C25_NoStateBetweenRequests ==
    [][(pc \in {"idle", "done"} /\ store' = store)
        => /\ acc' = <<>>
           /\ aiCalls' = 0 /\ dbCalls' = 0 /\ dbFailed' = 0
           /\ aiInput' = <<>>
           /\ IF pc' = "done"
              THEN reply' \in {Response(200, {}), Response(404, {}),
                               Response(200, {StrMember("html", "dashboard")})}
              ELSE reply' = Response(0, {})]_vars

\* a request has been answered and its results are still at hand
C25_Witness ==
    /\ pc = "done"
    /\ req.path = "/api/overview"
    /\ reply.status = 200
    /\ Len(acc) = 3
    /\ dbCalls = 4
    /\ Len(store) = 2

-----------------------------------------------------------------------------
(* The stats of a theme: C26 *)

UrgencyLevels == {"critical", "high", "medium", "low"}

\* C26: the stats of a theme-detail reply have a count for each of the
\* four urgency levels; over a theme with analyzed rows each is the number
\* of the theme's analyzed rows of that level, and when every such row has
\* one of the four levels they sum to the total, as the positive, neutral
\* and negative counts do.
C26_FourUrgencyCounts ==
    (pc = "done" /\ req.path = "/api/theme-detail" /\ reply.status = 200)
        => LET stats == reply.body.stats
               S == AnalyzedOfTheme(req.query.theme.v)
           IN  /\ UrgencyLevels \subseteq DOMAIN stats
               /\ S # {} =>
                    /\ \A level \in UrgencyLevels :
                            stats[level] = Num(Cardinality({r \in S : r.urgency = level}))
                    /\ (\A r \in S : r.urgency \in UrgencyLevels)
                            => stats.critical.v + stats.high.v + stats.medium.v
                                + stats.low.v = stats.total.v
                    /\ stats.positive.v + stats.neutral.v + stats.negative.v
                            = stats.total.v

-----------------------------------------------------------------------------
(* Text after the object: C27 *)

\* C27: a response with a valid JSON object followed later by other
\* brace-delimited text (a second object, or prose with a '}') yields the
\* fallback record of an unparsable response: none of the first object's
\* fields is in the result, nor any of the text after it.
C27_TrailingBracesFallBack ==
    (Classified /\ Outcome.kind = "text")
        => \A before \in Prefixes, object \in ObjectTexts, after \in Suffixes :
            (/\ \E i \in 1..Len(after) : after[i].kind = "}"
             /\ Outcome.text = before \o object \o after)
                => /\ reply.status = 200
                   /\ IsFallback(reply.body)
                   /\ StrMember("summary", "Unable to parse AI response") \in reply.body
                   /\ reply.body \cap Members(object) = {}
                   /\ reply.body \cap {after[i] : i \in 1..Len(after)} = {}

C27_Witness ==
    /\ Classified
    /\ Outcome.kind = "text"
    /\ Outcome.text = <<LBrace, StrMember("sentiment", "positive"),
                        NumMember("sentiment_score", 7), StrMember("theme", "pricing"),
                        StrMember("urgency", "low"), StrMember("summary", "ok"), RBrace,
                        Prose, LBrace, StrMember("sentiment", "negative"), RBrace>>
    /\ StrMember("sentiment", "neutral") \in reply.body
    /\ StrMember("summary", "Unable to parse AI response") \in reply.body

-----------------------------------------------------------------------------
(* The overview beside the theme table: C28 *)

\* C28: read against the same table, the overview and the theme table
\* agree: every theme of Top Themes has a row in the theme table with
\* urgent_count = critical + high and count = total, and the overview's
\* topTheme has the largest total of the theme table as its count; it is
\* absent when the theme table is empty.  The rows of the theme table are
\* the groups of its query, whatever their order.
C28_ViewsAgree ==
    OverviewReplied
        => LET top == reply.body.topThemes
               topTheme == reply.body.topTheme
               \* the themes that have a row in the theme table
               listed == {r.theme : r \in AnalyzedInTable} \ {"uncategorized"}
           IN  /\ \A i \in 1..Len(top) :
                    /\ top[i].theme \in listed
                    /\ top[i].urgent_count = ThemeTableGroup(top[i].theme).critical
                                             + ThemeTableGroup(top[i].theme).high
                    /\ top[i].count = ThemeTableGroup(top[i].theme).total
               /\ listed = {} => topTheme = <<>>
               /\ listed # {} =>
                    /\ Len(topTheme) = 1
                    /\ topTheme[1].theme \in listed
                    /\ topTheme[1].count = ThemeTableGroup(topTheme[1].theme).total
                    /\ \A theme \in listed :
                            ThemeTableGroup(theme).total <= topTheme[1].count

C28_Witness ==
    /\ OverviewReplied
    /\ Len(reply.body.topThemes) = 3
    /\ reply.body.topThemes[1].urgent_count = 2
    /\ reply.body.topThemes[2].urgent_count = 1
    /\ reply.body.topThemes[2].count = 1
    /\ reply.body.topThemes[3].count = 2
    /\ reply.body.topTheme[1].count = 3
    /\ \E i \in 1..Len(store) : store[i].urgency = "high"
    /\ \E i \in 1..Len(store) : store[i].urgency = "critical"

-----------------------------------------------------------------------------
(* Samples of rows whose urgency is no level: C29 *)

\* the level a value is ranked as: everything but critical, high and
\* medium as low
RankedAs(urgency) == IF urgency \in {"critical", "high", "medium"} THEN urgency ELSE "low"

\* C29: in the samples of a theme detail, a row whose urgency is not
\* critical, high or medium (a value that is no level, or null, included)
\* is ranked exactly like 'low': it comes after every critical, high and
\* medium row, and such rows and 'low' rows come among themselves by
\* created_at descending.
C29_UnknownUrgencyRanksLow ==
    (pc = "done" /\ req.path = "/api/theme-detail" /\ reply.status = 200)
        => LET samples == reply.body.samples
               n == Len(reply.body.samples)
           IN  /\ n = Least(10, Cardinality(AnalyzedOfTheme(req.query.theme.v)))
               /\ \A i \in 1..n : \A j \in 1..n :
                    i < j =>
                        /\ Severity(RankedAs(samples[i].urgency))
                                <= Severity(RankedAs(samples[j].urgency))
                        /\ Severity(RankedAs(samples[i].urgency))
                                = Severity(RankedAs(samples[j].urgency))
                            => samples[i].created_at >= samples[j].created_at

C29_Witness ==
    /\ pc = "done"
    /\ req.path = "/api/theme-detail"
    /\ reply.status = 200
    /\ Len(store) = 3
    /\ [i \in 1..3 |-> store[i].urgency] = <<"asap", "NULL", "medium">>
    /\ [i \in 1..3 |-> store[i].created_at] = <<0, 1, 0>>
    /\ [i \in 1..3 |-> reply.body.samples[i].urgency] = <<"medium", "NULL", "asap">>

-----------------------------------------------------------------------------
(* Every request is answered: C30 *)

\* the paths the router knows, and those it serves to POST only
KnownPaths == {"/", "/index.html", "/api/overview", "/api/feedback", "/api/themes",
               "/api/sentiment-trend", "/api/analyze", "/api/theme-detail",
               "/api/distributions", "/api/summarize"}

PostOnlyPaths == {"/api/analyze", "/api/summarize"}

\* the request in flight is not yet answered, the others have one reply
OneReply ==
    /\ pc \notin {"idle", "done"} => reply.status = 0
    /\ pc = "done" => reply.status \in {200, 400, 404, 500}

\* what the router and its catch owe the request just answered
RouterReplies ==
    pc = "done" =>
        /\ req.method = "OPTIONS"
            => reply.status = 200 /\ dbCalls = 0 /\ aiCalls = 0
        /\ (/\ req.method # "OPTIONS"
            /\ \/ req.path \notin KnownPaths
               \/ req.path \in PostOnlyPaths /\ req.method # "POST")
            => reply.status = 404 /\ dbCalls = 0 /\ aiCalls = 0
        /\ (/\ req.method = "POST"
            /\ req.path \in PostOnlyPaths
            /\ ~req.body.ok)
            => reply.status = 500
        /\ dbFailed > 0 => reply.status = 500

\* C30: with every store query and classifier call returning or raising,
\* every request eventually receives exactly one reply: a request in
\* flight has none yet and is eventually answered, and its reply, once
\* given, is not replaced.  A preflight is answered without a store or
\* classifier call, an unknown path or a non-POST request to the analyze
\* and summarize routes gets 404, and what a handler throws (a body that
\* does not decode, a store query that rejects) becomes a 500 reply.
C30_EveryRequestAnswered ==
    /\ [](OneReply /\ RouterReplies)
    /\ [][(pc = "done" /\ req' = req /\ pc' = "done")
            => reply'.status = reply.status]_<<pc, req, reply.status>>
    /\ (pc \notin {"idle", "done"}) ~> (pc = "done")

C30_Witness ==
    /\ pc = "done"
    /\ req.path = "/api/distributions"
    /\ dbCalls = 3
    /\ dbFailed = 1
    /\ reply.status = 500

=============================================================================
